---- MODULE Spec2Model ----
(***************************************************************************)
(* Model of the MailApp backend (src/unnamed/part_000, the Express server) *)
(* and its SQLite ledger (schema in src/MailApp/frontend/src/App.js).      *)
(*                                                                         *)
(* POST /api/send-emails is an async handler; better-sqlite3 statements    *)
(* are synchronous, so the handler runs atomically between await points.   *)
(* One action per run-to-next-await segment of the handler.                *)
(***************************************************************************)
EXTENDS Integers, Sequences, FiniteSets, TLC

\* ------------------------------------------------------------------ bounds
\* Most batch_recipients rows the ledger holds (and so the longest recipients
\* array a request body carries).
MaxRows == 2

\* --------------------------------------------------------- program constants
MAX_RETRIES == 3

\* ------------------------------------------------------------------ values
\* JS null / undefined, and a present value, as a 0- or 1-element tuple.
Null == <<>>
Some(v) == <<v>>

\* JS strings are tuples of one-character strings, so that toLowerCase,
\* toUpperCase and includes are computed character by character.
S_Email == <<"E", "m", "a", "i", "l">>
S_Name == <<"N", "a", "m", "e">>
S_email == <<"e", "m", "a", "i", "l">>
S_a_x_com == <<"a", "@", "x", ".", "c", "o", "m">>
S_b_x_com == <<"b", "@", "x", ".", "c", "o", "m">>
S_c_x_com == <<"c", "@", "x", ".", "c", "o", "m">>
S_Ada == <<"A", "d", "a">>
S_Bob == <<"B", "o", "b">>
S_454_470 == <<"4", "5", "4", " ", "4", ".", "7", ".", "0">>
S_temporary_authentication_failure == <<"t", "e", "m", "p", "o", "r", "a", "r", "y", " ", "a", "u", "t", "h", "e", "n", "t", "i", "c", "a", "t", "i", "o", "n", " ", "f", "a", "i", "l", "u", "r", "e">>
S_network_error == <<"n", "e", "t", "w", "o", "r", "k", " ", "e", "r", "r", "o", "r">>
S_connection_lost == <<"c", "o", "n", "n", "e", "c", "t", "i", "o", "n", " ", "l", "o", "s", "t">>
S_connection_closed == <<"c", "o", "n", "n", "e", "c", "t", "i", "o", "n", " ", "c", "l", "o", "s", "e", "d">>
S_connection_reset == <<"c", "o", "n", "n", "e", "c", "t", "i", "o", "n", " ", "r", "e", "s", "e", "t">>
S_socket_hang_up == <<"s", "o", "c", "k", "e", "t", " ", "h", "a", "n", "g", " ", "u", "p">>
S_timed_out == <<"t", "i", "m", "e", "d", " ", "o", "u", "t">>
S_timeout == <<"t", "i", "m", "e", "o", "u", "t">>
S_ECONNECTION == <<"E", "C", "O", "N", "N", "E", "C", "T", "I", "O", "N">>
S_ECONNRESET == <<"E", "C", "O", "N", "N", "R", "E", "S", "E", "T">>
S_ETIMEDOUT == <<"E", "T", "I", "M", "E", "D", "O", "U", "T">>
S_ESOCKET == <<"E", "S", "O", "C", "K", "E", "T">>
S_EAI_AGAIN == <<"E", "A", "I", "_", "A", "G", "A", "I", "N">>
S_ENOTFOUND == <<"E", "N", "O", "T", "F", "O", "U", "N", "D">>
S_EAUTH == <<"E", "A", "U", "T", "H">>
S_EENVELOPE == <<"E", "E", "N", "V", "E", "L", "O", "P", "E">>
S_read_ECONNRESET == <<"r", "e", "a", "d", " ", "E", "C", "O", "N", "N", "R", "E", "S", "E", "T">>
S_454_Try_again_later == <<"4", "5", "4", " ", "4", ".", "7", ".", "0", " ", "T", "r", "y", " ", "a", "g", "a", "i", "n", " ", "l", "a", "t", "e", "r">>
S_550_No_such_user == <<"5", "5", "0", " ", "N", "o", " ", "s", "u", "c", "h", " ", "u", "s", "e", "r">>
S_Missing_Email == <<"M", "i", "s", "s", "i", "n", "g", " ", "E", "m", "a", "i", "l", " ", "f", "i", "e", "l", "d", " ", "i", "n", " ", "r", "e", "c", "i", "p", "i", "e", "n", "t", " ", "r", "o", "w">>
S_SMTP_verify_failed == <<"S", "M", "T", "P", " ", "v", "e", "r", "i", "f", "y", " ", "f", "a", "i", "l", "e", "d", ":", " ">>
S_Hi_Name == <<"H", "i", " ", "{", "N", "a", "m", "e", "}">>
S_Body == <<"D", "e", "a", "r", " ", "{", "N", "a", "m", "e", "}">>
S_a_b_x_com == <<"a", " ", "b", "@", "x", ".", "c", "o", "m">>
S_unknown == <<"u", "n", "k", "n", "o", "w", "n">>
S_Candidate == <<"C", "a", "n", "d", "i", "d", "a", "t", "e">>
S_unknown_example_com == <<"u", "n", "k", "n", "o", "w", "n", "@", "e", "x", "a", "m", "p", "l", "e", ".", "c", "o", "m">>
S_recipient == <<"r", "e", "c", "i", "p", "i", "e", "n", "t">>
S_pdf == <<".", "p", "d", "f">>
S_html_tag == <<"<", "h", "t", "m", "l">>
S_No_subject == <<"N", "o", " ", "s", "u", "b", "j", "e", "c", "t">>
S_list_csv == <<"l", "i", "s", "t", ".", "c", "s", "v">>
S_LIST_CSV == <<"L", "I", "S", "T", ".", "C", "S", "V">>
S_other_csv == <<"o", "t", "h", "e", "r", ".", "c", "s", "v">>
S_blank == <<" ">>
S_Target_closed == <<"T", "a", "r", "g", "e", "t", " ", "c", "l", "o", "s", "e", "d">>
S_x == <<"x">>
S_Hello_Name == <<"H", "e", "l", "l", "o", " ", "{", "N", "a", "m", "e", "}">>
S_Name_placeholder == <<"{", "N", "a", "m", "e", "}">>
S_p_Dear == <<"<", "p", ">", "D", "e", "a", "r", " ">>
S_p_end == <<",", "<", "/", "p", ">">>
S_City == <<"C", "i", "t", "y">>
S_Oslo == <<"O", "s", "l", "o">>
S_Hi == <<"H", "i">>
S_name_placeholder == <<"{", "n", "a", "m", "e", "}">>
S_City_Name == <<"{", "C", "i", "t", "y", "}", " ", "{", "N", "a", "m", "e", "}">>
UpperToLower ==
    [A |-> "a", B |-> "b", C |-> "c", D |-> "d", E |-> "e", F |-> "f", G |-> "g", H |-> "h", I |-> "i", J |-> "j", K |-> "k", L |-> "l", M |-> "m", N |-> "n", O |-> "o", P |-> "p", Q |-> "q", R |-> "r", S |-> "s", T |-> "t", U |-> "u", V |-> "v", W |-> "w", X |-> "x", Y |-> "y", Z |-> "z"]
LowerToUpper ==
    [a |-> "A", b |-> "B", c |-> "C", d |-> "D", e |-> "E", f |-> "F", g |-> "G", h |-> "H", i |-> "I", j |-> "J", k |-> "K", l |-> "L", m |-> "M", n |-> "N", o |-> "O", p |-> "P", q |-> "Q", r |-> "R", s |-> "S", t |-> "T", u |-> "U", v |-> "V", w |-> "W", x |-> "X", y |-> "Y", z |-> "Z"]
S_Error == <<"E", "r", "r", "o", "r">>

ToLowerCase(s) ==
    [n \in 1..Len(s) |-> IF s[n] \in DOMAIN UpperToLower THEN UpperToLower[s[n]] ELSE s[n]]

ToUpperCase(s) ==
    [n \in 1..Len(s) |-> IF s[n] \in DOMAIN LowerToUpper THEN LowerToUpper[s[n]] ELSE s[n]]

\* String.prototype.includes
includes(s, t) ==
    \E n \in 0..(Len(s) - Len(t)) : SubSeq(s, n + 1, n + Len(t)) = t

Min(S) == CHOOSE x \in S : \A y \in S : x <= y

\* ------------------------------------------------------- failure classifier
\* An error object raised by the transport: code, responseCode (Null when
\* absent), message and response ("" when absent).
isTemporaryAuthError(err) ==
    \/ err.responseCode = Some(454)
    \/ LET m == ToLowerCase(err.message)
           r == ToLowerCase(err.response)
       IN  \/ includes(m, S_454_470)
           \/ includes(r, S_454_470)
           \/ includes(m, S_temporary_authentication_failure)
           \/ includes(r, S_temporary_authentication_failure)

\* Mutant of isNetworkError: ECONNRESET is missing from the code list.
isNetworkError_NoReset(err) ==
    LET code == ToUpperCase(err.code)
        text == ToLowerCase(err.message) \o <<" ">> \o ToLowerCase(err.response)
    IN  \/ code \in {S_ECONNECTION, S_ETIMEDOUT,
                     S_ESOCKET, S_EAI_AGAIN, S_ENOTFOUND}
        \/ includes(text, S_network_error)
        \/ includes(text, S_connection_lost)
        \/ includes(text, S_connection_closed)
        \/ includes(text, S_connection_reset)
        \/ includes(text, S_socket_hang_up)
        \/ includes(text, S_timed_out)
        \/ includes(text, S_timeout)

isNetworkError(err) ==
    LET code == ToUpperCase(err.code)
        text == ToLowerCase(err.message) \o <<" ">> \o ToLowerCase(err.response)
    IN  \/ code \in {S_ECONNECTION, S_ECONNRESET, S_ETIMEDOUT,
                     S_ESOCKET, S_EAI_AGAIN, S_ENOTFOUND}
        \/ includes(text, S_network_error)
        \/ includes(text, S_connection_lost)
        \/ includes(text, S_connection_closed)
        \/ includes(text, S_connection_reset)
        \/ includes(text, S_socket_hang_up)
        \/ includes(text, S_timed_out)
        \/ includes(text, S_timeout)

\* Mutant of retryable: the attempt limit is forgotten.
retryable_NoLimit(tempAuth, netErr, attempt) ==
    tempAuth \/ netErr

\* Mutant of retryable: the attempt limit is off by one.
retryable_OffByOne(tempAuth, netErr, attempt) ==
    (tempAuth \/ netErr) /\ attempt <= MAX_RETRIES

\* (tempAuth || netErr) && attempt < MAX_RETRIES, as written in both retry loops
retryable(tempAuth, netErr, attempt) ==
    (tempAuth \/ netErr) /\ attempt < MAX_RETRIES

\* Mutant of reason: the network rule is tested first.
reason_NetworkFirst(tempAuth, netErr) ==
    IF netErr THEN "NETWORK" ELSE IF tempAuth THEN "TEMP_AUTH" ELSE "OTHER"

\* const reason = tempAuth ? "TEMP_AUTH" : netErr ? "NETWORK" : "OTHER"
reason(tempAuth, netErr) ==
    IF tempAuth THEN "TEMP_AUTH" ELSE IF netErr THEN "NETWORK" ELSE "OTHER"

\* Mutant of errorText: the message is dropped.
errorText_Generic(err) == S_Error

\* err.message || String(err)
errorText(err) == IF err.message # <<>> THEN err.message ELSE S_Error

\* The errors the transport raises in this model.
ErrReset ==
    [code |-> S_ECONNRESET, responseCode |-> Null,
     message |-> S_read_ECONNRESET, response |-> <<>>]
Err454 ==
    [code |-> S_EAUTH, responseCode |-> Some(454),
     message |-> S_454_Try_again_later, response |-> S_454_Try_again_later]
Err550 ==
    [code |-> S_EENVELOPE, responseCode |-> Some(550),
     message |-> S_550_No_such_user, response |-> S_550_No_such_user]
Errors == {ErrReset, Err454, Err550}

\* ------------------------------------------------------------- recipients
\* A recipient is an attribute map: the sequence of its [k, v] entries in
\* Object.keys order; v is Null for a JSON null, Some(string) otherwise.
getField(recipient, fieldName, defaultValue) ==
    LET hits == {n \in 1..Len(recipient) :
                    ToLowerCase(recipient[n].k) = ToLowerCase(fieldName)}
    IN  IF hits = {} THEN defaultValue
        ELSE LET value == recipient[Min(hits)].v
             IN  IF value = Null THEN defaultValue ELSE value[1]

\* ------------------------------------------------------------- templates
\* Mutant of StartsAt: letter case is ignored.
StartsAt_IgnoreCase(t, pat, n) ==
    /\ n + Len(pat) - 1 <= Len(t)
    /\ ToLowerCase(SubSeq(t, n, n + Len(pat) - 1)) = ToLowerCase(pat)

\* t starts with pat at position n (1-based).
StartsAt(t, pat, n) ==
    /\ n + Len(pat) - 1 <= Len(t)
    /\ SubSeq(t, n, n + Len(pat) - 1) = pat

\* result.replace(new RegExp(escapeRegExp("{key}"), "g"), value): every
\* occurrence of the literal pat, left to right, from position n on.
RECURSIVE replaceAll(_, _, _, _)
replaceAll(t, pat, value, n) ==
    IF n > Len(t) THEN <<>>
    ELSE IF StartsAt(t, pat, n)
    THEN value \o replaceAll(t, pat, value, n + Len(pat))
    ELSE <<t[n]>> \o replaceAll(t, pat, value, n + 1)

\* The for loop of applyTemplate over Object.entries(recipient), from entry
\* n on: entries with an empty key are skipped, a null value is "".
RECURSIVE applyEntries(_, _, _)
applyEntries(result, recipient, n) ==
    IF n > Len(recipient) THEN result
    ELSE LET key == recipient[n].k
             value == IF recipient[n].v = Null THEN <<>> ELSE recipient[n].v[1]
         IN  IF key = <<>> THEN applyEntries(result, recipient, n + 1)
             ELSE applyEntries(replaceAll(result, <<"{">> \o key \o <<"}">>, value, 1),
                               recipient, n + 1)

\* Mutant of applyTemplate: the template is returned as it is.
applyTemplate_Identity(template, recipient) ==
    template

\* applyTemplate(template, recipient); recipient is an attribute map, never
\* null at the call sites of the render handlers.
applyTemplate(template, recipient) ==
    IF template = <<>> THEN <<>> ELSE applyEntries(template, recipient, 1)

\* { ...base, ...data } of two attribute maps: a key of data that base holds
\* keeps its place and takes data's value, the other keys follow in order.
RECURSIVE spread(_, _, _)
spread(base, data, n) ==
    IF n > Len(data) THEN base
    ELSE LET hits == {m \in 1..Len(base) : base[m].k = data[n].k}
         IN  IF hits = {}
             THEN spread(Append(base, data[n]), data, n + 1)
             ELSE spread([base EXCEPT ![Min(hits)].v = data[n].v], data, n + 1)

\* The document page.setContent receives: the personalized html as it is when
\* it contains "<html" in any case, else the shell with the personalized
\* subject as title and the personalized html as body.
fullHtml(personalizedSubject, personalizedHtml) ==
    IF includes(ToLowerCase(personalizedHtml), S_html_tag)
    THEN [shell |-> FALSE, title |-> <<>>, body |-> personalizedHtml]
    ELSE [shell |-> TRUE, title |-> personalizedSubject, body |-> personalizedHtml]

\* The characters /[^a-z0-9@._-]/gi leaves in place.
SafeChars ==
    DOMAIN UpperToLower \cup DOMAIN LowerToUpper
    \cup {"0", "1", "2", "3", "4", "5", "6", "7", "8", "9", "@", ".", "_", "-"}

\* Mutant of safeEmail: blanks are kept.
safeEmail_KeepBlank(email) ==
    [n \in 1..Len(email) |->
        IF email[n] \in SafeChars \cup {" "} THEN email[n] ELSE "_"]

\* String(email).replace(/[^a-z0-9@._-]/gi, "_")
safeEmail(email) ==
    [n \in 1..Len(email) |-> IF email[n] \in SafeChars THEN email[n] ELSE "_"]

\* The attribute maps request bodies are built from.
RecipientPool ==
    << << [k |-> S_Email, v |-> Some(S_a_x_com)], [k |-> S_Name, v |-> Some(S_Ada)] >>,
       << [k |-> S_email, v |-> Some(S_b_x_com)] >>,
       << [k |-> S_Email, v |-> Some(S_c_x_com)], [k |-> S_Name, v |-> Null] >>,
       << [k |-> S_Name, v |-> Some(S_Bob)] >>,
       << [k |-> S_Email, v |-> Some(<<>>)] >>,
       << [k |-> S_Email, v |-> Some(S_a_b_x_com)], [k |-> S_Name, v |-> Some(S_Bob)] >> >>

\* The recipients arrays a request body may carry: arrays over these pool
\* entries, of length 1..MaxRows.
Kinds == {1, 4, 5}
RecipientLists == UNION {[1..n -> Kinds] : n \in 1..MaxRows}

\* The JSON value of req.body.recipients: an array of attribute maps, or a
\* value that is not an array (absent, a string, an object).
JsonArray(items) == [isArray |-> TRUE, items |-> items]
NotAnArray == [isArray |-> FALSE, items |-> <<>>]

\* The request bodies of POST /api/send-emails: every recipients array with a
\* subject and a body, and the bodies validation rejects. An absent or empty
\* subject or htmlBody is the empty string.
Body(recipients, subject, htmlBody, csvName) ==
    [recipients |-> recipients, subject |-> subject, htmlBody |-> htmlBody,
     csvName |-> csvName]
RequestBodies ==
    {Body(JsonArray(l), S_Hi_Name, S_Body, Null) : l \in RecipientLists}
    \cup {Body(JsonArray(<<>>), S_Hi_Name, S_Body, Null),
          Body(NotAnArray, S_Hi_Name, S_Body, Null),
          Body(JsonArray(<<1>>), <<>>, S_Body, Null),
          Body(JsonArray(<<1>>), S_Hi_Name, <<>>, Null)}

\* The dispatch requests of a run: two, so that two handlers interleave at
\* every await point.
Reqs == {1, 2}

\* ------------------------------------------------------------------- state
VARIABLES
    batches,           \* table batches, in id order (id = position)
    batch_recipients,  \* table batch_recipients, in id order
    req,               \* per request: the handler's position and locals
    sendMailCalls,     \* per request and index: transporter.sendMail calls made
    sleepCalls,        \* per request and index: sleep(RETRY_DELAY_MS) calls made
    now,               \* the clock datetime('now') reads, in whole seconds
    render,            \* the render request: the handler's position and locals
    call               \* a call of a function on its own: arguments, values returned

vars == <<batches, batch_recipients, req, sendMailCalls, sleepCalls, now, render, call>>

\* What the dispatch handler neither reads for its decisions nor writes.
renderVars == <<now, render, call>>

\* ------------------------------------------------------------------ ledger
\* INSERT INTO batches (subject, html_body, total, csv_name, status);
\* the other columns take the schema's defaults: created_at is
\* datetime('now'), a text with a resolution of one second. The updated_at
\* column of batch_recipients is not part of the rows here.
insertBatch(table, subject, html_body, total, csv_name) ==
    Append(table,
           [id |-> Len(table) + 1, created_at |-> now, csv_name |-> csv_name,
            subject |-> subject,
            html_body |-> html_body, total |-> total, sent |-> 0, failed |-> 0,
            processed |-> 0, status |-> "in_progress", stopped_at |-> Null,
            error |-> Null])

\* Mutant of insertRec: indexes are stored one-based.
insertRec_OneBased(table, batch_id, idx, email, name, data_json) ==
    Append(table,
           [id |-> Len(table) + 1, batch_id |-> batch_id, idx |-> idx + 1,
            email |-> email, name |-> name, data_json |-> data_json,
            status |-> "pending", attempt |-> 0, error |-> Null])

\* INSERT INTO batch_recipients (batch_id, idx, email, name, data_json,
\* status, attempt) VALUES (?, ?, ?, ?, ?, 'pending', 0)
insertRec(table, batch_id, idx, email, name, data_json) ==
    Append(table,
           [id |-> Len(table) + 1, batch_id |-> batch_id, idx |-> idx,
            email |-> email, name |-> name, data_json |-> data_json,
            status |-> "pending", attempt |-> 0, error |-> Null])

\* recipients.forEach((rec, idx) => insertRec.run(...)), from index idx on
RECURSIVE insertRecipients(_, _, _, _)
insertRecipients(table, batchId, recipients, idx) ==
    IF idx >= Len(recipients) THEN table
    ELSE LET rec == RecipientPool[recipients[idx + 1]]
         IN  insertRecipients(
                 insertRec(table, batchId, idx, getField(rec, S_Email, <<>>),
                           getField(rec, S_Name, <<>>), rec),
                 batchId, recipients, idx + 1)

\* Mutant of updateBatch: the WHERE clause is missing.
updateBatch_NoWhere(table, sent, failed, processed, status, stopped_at, error, id) ==
    [n \in 1..Len(table) |->
        [table[n] EXCEPT !.sent = sent, !.failed = failed,
                         !.processed = processed, !.status = status,
                         !.stopped_at = stopped_at, !.error = error]]

\* UPDATE batches SET sent, failed, processed, status, stopped_at, error
\* WHERE id = ?
updateBatch(table, sent, failed, processed, status, stopped_at, error, id) ==
    [n \in 1..Len(table) |->
        IF table[n].id = id
        THEN [table[n] EXCEPT !.sent = sent, !.failed = failed,
                              !.processed = processed, !.status = status,
                              !.stopped_at = stopped_at, !.error = error]
        ELSE table[n]]

\* Mutant of updateRec: the row is deleted instead of updated.
updateRec_Delete(table, status, attempt, error, batch_id, idx) ==
    SelectSeq(table, LAMBDA row : ~(row.batch_id = batch_id /\ row.idx = idx))

\* Mutant of updateRec: the WHERE clause tests idx only.
updateRec_NoBatchId(table, status, attempt, error, batch_id, idx) ==
    [n \in 1..Len(table) |->
        IF table[n].idx = idx
        THEN [table[n] EXCEPT !.status = status, !.attempt = attempt,
                              !.error = error]
        ELSE table[n]]

\* Mutant of updateRec: the row of the following index is written.
updateRec_NextIdx(table, status, attempt, error, batch_id, idx) ==
    [n \in 1..Len(table) |->
        IF table[n].batch_id = batch_id /\ table[n].idx = idx + 1
        THEN [table[n] EXCEPT !.status = status, !.attempt = attempt,
                              !.error = error]
        ELSE table[n]]

\* UPDATE batch_recipients SET status, attempt, error
\* WHERE batch_id = ? AND idx = ?
updateRec(table, status, attempt, error, batch_id, idx) ==
    [n \in 1..Len(table) |->
        IF table[n].batch_id = batch_id /\ table[n].idx = idx
        THEN [table[n] EXCEPT !.status = status, !.attempt = attempt,
                              !.error = error]
        ELSE table[n]]

\* ---------------------------------------------------------------- handler
InitReq ==
    [pc |-> "idle", body |-> Null, recipients |-> <<>>, subject |-> <<>>, htmlBody |-> <<>>,
     batchId |-> 0, attempt |-> 0, i |-> 0, r |-> Null, results |-> <<>>,
     stoppedAt |-> Null, sentCount |-> 0, failedCount |-> 0, err |-> Null,
     res |-> [status |-> 0, body |-> Null]]

\* The render request before it arrives. kind is the endpoint; items are the
\* documents' sources (request recipients or ledger rows); content is the
\* document last given to page.setContent; pdfFiles the {filename, buffer}
\* list, a buffer being the document it was printed from; browser is the
\* renderer instance ("none", "open", "closed") and launches the number of
\* puppeteer.launch calls that resolved; entries are the archive.append calls.
InitRender ==
    [pc |-> "idle", kind |-> "none", input |-> Null, items |-> <<>>,
     subject |-> <<>>, htmlBody |-> <<>>, batchId |-> 0, i |-> 0,
     content |-> Null, pdfFiles |-> <<>>, browser |-> "none", launches |-> 0,
     entries |-> <<>>, headersSent |-> FALSE, err |-> Null,
     res |-> [status |-> 0, ended |-> FALSE, body |-> Null]]

\* No function is called on its own.
NoCall == [fn |-> "none", args |-> Null, returned |-> {}]

Init ==
    /\ call = NoCall
    /\ batches = <<>>
    /\ batch_recipients = <<>>
    /\ req = [q \in Reqs |-> InitReq]
    /\ sendMailCalls = [q \in Reqs |-> <<>>]
    /\ sleepCalls = [q \in Reqs |-> <<>>]
    /\ now = 0
    /\ render = InitRender

\* JS truthiness of stoppedAt (null or a number): !stoppedAt
falsy(v) == v = Null \/ v = Some(0)

\* processed === total && !stoppedAt ? "completed" : "stopped"
finalStatus(processed, total, stoppedAt) ==
    IF processed = total /\ falsy(stoppedAt) THEN "completed" ELSE "stopped"

\* Mutant of circuitBreaker: no error stops the batch.
circuitBreaker_Never(r) ==
    FALSE

\* Mutant of circuitBreaker: every error stops the batch.
circuitBreaker_AnyError(r) ==
    r.status = "error"

\* r.status === "error" && (r.reason === "NETWORK" || r.reason === "TEMP_AUTH")
circuitBreaker(r) ==
    r.status = "error" /\ (r.reason = "NETWORK" \/ r.reason = "TEMP_AUTH")

\* if (r.status === "sent") sentCount++
sentCountAfter(sentCount, r) ==
    IF r.status = "sent" THEN sentCount + 1 ELSE sentCount

\* Mutant of failedCountAfter: the status literal is mistyped.
failedCountAfter_WrongLiteral(failedCount, r) ==
    IF r.status = "failed" THEN failedCount + 1 ELSE failedCount

\* if (r.status === "error") failedCount++
failedCountAfter(failedCount, r) ==
    IF r.status = "error" THEN failedCount + 1 ELSE failedCount

\* The result sendToRecipientWithRetry returns for a recipient without email.
missingEmailResult ==
    [email |-> <<>>, status |-> "error", attempt |-> 0,
     error |-> Some(S_Missing_Email), reason |-> "OTHER"]

\* Mutant of sendToRecipientWithRetry: the attempt counter starts at 0.
sendToRecipientWithRetry_FromZero(h) ==
    LET recipient == RecipientPool[h.recipients[h.i + 1]]
        email == getField(recipient, S_Email, <<>>)
    IN  IF email = <<>>
        THEN [h EXCEPT !.pc = "resume", !.r = Some(missingEmailResult)]
        ELSE [h EXCEPT !.pc = "sendMail", !.attempt = 0]

\* sendToRecipientWithRetry up to its first await: the handler record h is at
\* recipients[h.i]; either the call returns at once (no email) or the first
\* transporter.sendMail is in flight.
\* (The personalized subject and html of mailOptions are computed from the
\* arguments alone and are not kept in the state.)
sendToRecipientWithRetry(h) ==
    LET recipient == RecipientPool[h.recipients[h.i + 1]]
        email == getField(recipient, S_Email, <<>>)
    IN  IF email = <<>>
        THEN [h EXCEPT !.pc = "resume", !.r = Some(missingEmailResult)]
        ELSE [h EXCEPT !.pc = "sendMail", !.attempt = 1]

\* Ghost bookkeeping: a request whose handler has just entered pc "sendMail"
\* has made one more transporter.sendMail call for its current index.
CountSendMail(q, h) ==
    sendMailCalls' =
        IF h.pc = "sendMail"
        THEN [sendMailCalls EXCEPT ![q][h.i] = @ + 1]
        ELSE sendMailCalls

\* Lines 368-394: compute processed and finalStatus, finalize the batch row,
\* answer 200.
Finalize(q, h, recs) ==
    LET total == Len(h.recipients)
        processed == Len(h.results)
        status == finalStatus(processed, total, h.stoppedAt)
    IN  /\ batches' = updateBatch(batches, h.sentCount, h.failedCount, processed,
                                  status, h.stoppedAt, Null, h.batchId)
        /\ batch_recipients' = recs
        /\ req' = [req EXCEPT ![q] =
                     [h EXCEPT !.pc = "done",
                               !.res = [status |-> 200,
                                        body |-> [sent |-> h.sentCount,
                                                  failed |-> h.failedCount,
                                                  total |-> total,
                                                  processed |-> processed,
                                                  stoppedAt |-> h.stoppedAt,
                                                  results |-> h.results,
                                                  batchId |-> h.batchId]]]]
        /\ UNCHANGED <<sendMailCalls, sleepCalls>>

\* The for loop's condition at line 341 with h.i set: call
\* sendToRecipientWithRetry for recipients[i], or leave the loop.
ForLoop(q, h, recs) ==
    IF h.i < Len(h.recipients)
    THEN LET h2 == sendToRecipientWithRetry(h)
         IN  /\ req' = [req EXCEPT ![q] = h2]
             /\ CountSendMail(q, h2)
             /\ batch_recipients' = recs
             /\ UNCHANGED <<batches, sleepCalls>>
    ELSE Finalize(q, h, recs)

\* The ledger is kept within MaxRows recipient rows: a request is let in only
\* while its recipients still fit.
RowsFit(recipients) == Len(batch_recipients) + Len(recipients) <= MaxRows

\* Requests are numbered in their order of arrival.
ArrivesNext(q) == \A p \in Reqs : p < q => req[p].pc # "idle"

\* Mutant of validationError: the subject is not tested.
validationError_NoSubject(recipients, subject, htmlBody) ==
    IF ~recipients.isArray \/ Len(recipients.items) = 0
    THEN Some("recipients must be a non-empty array")
    ELSE IF htmlBody = <<>>
    THEN Some("subject and htmlBody are required")
    ELSE Null

\* Lines 239-247: the error of the 400 answer, or Null for a valid body.
validationError(recipients, subject, htmlBody) ==
    IF ~recipients.isArray \/ Len(recipients.items) = 0
    THEN Some("recipients must be a non-empty array")
    ELSE IF subject = <<>> \/ htmlBody = <<>>
    THEN Some("subject and htmlBody are required")
    ELSE Null

\* POST /api/send-emails arrives: validation, the batch row, the recipient
\* rows, the transporter, and the first transporter.verify() call.
SendEmails(q, recipients, subject, htmlBody, csvName) ==
    /\ req[q].pc = "idle"
    /\ UNCHANGED renderVars
    /\ LET error == validationError(recipients, subject, htmlBody)
           body == Some(Body(recipients, subject, htmlBody, csvName))
       IN  IF error # Null
           THEN /\ req' = [req EXCEPT ![q].pc = "done", ![q].body = body,
                                      ![q].res = [status |-> 400,
                                                  body |-> [error |-> error[1]]]]
                /\ UNCHANGED <<batches, batch_recipients, sendMailCalls, sleepCalls>>
           ELSE LET batchId == Len(batches) + 1
                    items == recipients.items
                IN  /\ batches' = insertBatch(batches, subject, htmlBody,
                                              Len(items), csvName)
                    /\ batch_recipients' =
                           insertRecipients(batch_recipients, batchId, items, 0)
                    /\ req' = [req EXCEPT ![q] =
                                 [@ EXCEPT !.pc = "verify", !.body = body,
                                           !.recipients = items,
                                           !.subject = subject, !.htmlBody = htmlBody,
                                           !.batchId = batchId, !.attempt = 1]]
                    /\ sendMailCalls' =
                           [sendMailCalls EXCEPT ![q] = [n \in 0..(Len(items) - 1) |-> 0]]
                    /\ sleepCalls' =
                           [sleepCalls EXCEPT ![q] = [n \in 0..(Len(items) - 1) |-> 0]]

\* transporter.verify() resolves: verifySmtpWithRetry returns, the handler
\* sets up its counters and enters the send loop.
verifyResolve(q) ==
    /\ req[q].pc = "verify"
    /\ UNCHANGED renderVars
    /\ ForLoop(q, [req[q] EXCEPT !.attempt = 0, !.i = 0], batch_recipients)

\* The handler's catch of a verifySmtpWithRetry failure: lines 315-330.
verifyFailed(q, h, err) ==
    /\ batches' = updateBatch(batches, 0, 0, 0, "stopped", Null,
                              Some(S_SMTP_verify_failed \o errorText(err)),
                              h.batchId)
    /\ req' = [req EXCEPT ![q] =
                 [h EXCEPT !.pc = "done", !.attempt = 0, !.err = Some(err),
                           !.res = [status |-> 500,
                                    body |-> [error |-> "SMTP connection failed",
                                              details |-> err.message,
                                              code |-> err.code]]]]
    /\ UNCHANGED <<batch_recipients, sendMailCalls, sleepCalls>>

\* transporter.verify() rejects with err: sleep and retry, or rethrow.
verifyReject(q, err) ==
    /\ req[q].pc = "verify"
    /\ UNCHANGED renderVars
    /\ LET tempAuth == isTemporaryAuthError(err)
           netErr == isNetworkError(err)
       IN  IF retryable(tempAuth, netErr, req[q].attempt)
           THEN /\ req' = [req EXCEPT ![q].pc = "verifySleep", ![q].err = Some(err)]
                /\ UNCHANGED <<batches, batch_recipients, sendMailCalls, sleepCalls>>
           ELSE verifyFailed(q, req[q], err)

\* sleep(RETRY_DELAY_MS) in verifySmtpWithRetry ends: attempt++, and the loop
\* condition attempt <= MAX_RETRIES decides between a new verify() and
\* falling out of the loop (the function then returns normally).
verifySleepDone(q) ==
    /\ req[q].pc = "verifySleep"
    /\ UNCHANGED renderVars
    /\ LET attempt == req[q].attempt + 1
       IN  IF attempt <= MAX_RETRIES
           THEN /\ req' = [req EXCEPT ![q].pc = "verify", ![q].attempt = attempt,
                                      ![q].err = Null]
                /\ UNCHANGED <<batches, batch_recipients, sendMailCalls, sleepCalls>>
           ELSE ForLoop(q, [req[q] EXCEPT !.attempt = 0, !.err = Null, !.i = 0],
                        batch_recipients)

\* transporter.sendMail resolves: sendToRecipientWithRetry returns "sent".
sendMailResolve(q) ==
    /\ req[q].pc = "sendMail"
    /\ UNCHANGED renderVars
    /\ LET h == req[q]
           email == getField(RecipientPool[h.recipients[h.i + 1]], S_Email, <<>>)
       IN  req' = [req EXCEPT ![q] =
                     [h EXCEPT !.pc = "resume", !.attempt = 0,
                               !.r = Some([email |-> email, status |-> "sent",
                                           attempt |-> h.attempt, error |-> Null,
                                           reason |-> "undefined"])]]
    /\ UNCHANGED <<batches, batch_recipients, sendMailCalls, sleepCalls>>

\* transporter.sendMail rejects with err: sleep and retry, or return "error".
sendMailReject(q, err) ==
    /\ req[q].pc = "sendMail"
    /\ UNCHANGED renderVars
    /\ LET h == req[q]
           email == getField(RecipientPool[h.recipients[h.i + 1]], S_Email, <<>>)
           tempAuth == isTemporaryAuthError(err)
           netErr == isNetworkError(err)
       IN  IF retryable(tempAuth, netErr, h.attempt)
           THEN /\ req' = [req EXCEPT ![q].pc = "sendSleep", ![q].err = Some(err)]
                /\ sleepCalls' = [sleepCalls EXCEPT ![q][h.i] = @ + 1]
                /\ UNCHANGED <<batches, batch_recipients, sendMailCalls>>
           ELSE /\ req' = [req EXCEPT ![q] =
                             [h EXCEPT !.pc = "resume", !.attempt = 0,
                                       !.r = Some([email |-> email,
                                                   status |-> "error",
                                                   attempt |-> h.attempt,
                                                   error |-> Some(errorText(err)),
                                                   reason |-> reason(tempAuth, netErr)])]]
                /\ UNCHANGED <<batches, batch_recipients, sendMailCalls, sleepCalls>>

\* sleep(RETRY_DELAY_MS) in sendToRecipientWithRetry ends: continue; attempt++,
\* and the loop condition decides between a new sendMail and falling out of
\* the loop (the function then returns undefined).
sendSleepDone(q) ==
    /\ req[q].pc = "sendSleep"
    /\ UNCHANGED renderVars
    /\ LET attempt == req[q].attempt + 1
           h == IF attempt <= MAX_RETRIES
                THEN [req[q] EXCEPT !.pc = "sendMail", !.attempt = attempt, !.err = Null]
                ELSE [req[q] EXCEPT !.pc = "resume", !.attempt = 0, !.err = Null,
                                    !.r = Null]
       IN  /\ req' = [req EXCEPT ![q] = h]
           /\ CountSendMail(q, h)
    /\ UNCHANGED <<batches, batch_recipients, sleepCalls>>

\* The handler's await of sendToRecipientWithRetry resumes with r: lines
\* 348-366, then the next iteration's call or lines 368-394.
resume(q) ==
    /\ req[q].pc = "resume"
    /\ UNCHANGED renderVars
    /\ IF req[q].r = Null
       THEN \* r is undefined: r.status throws out of the handler
            /\ req' = [req EXCEPT ![q].pc = "threw"]
            /\ UNCHANGED <<batches, batch_recipients, sendMailCalls, sleepCalls>>
       ELSE LET h == req[q]
                r == h.r[1]
                statusForDb == IF r.status = "sent" THEN "sent" ELSE "error"
                recs == updateRec(batch_recipients, statusForDb, r.attempt,
                                  r.error, h.batchId, h.i)
                h1 == [h EXCEPT !.results = Append(@, r), !.r = Null,
                                !.sentCount = sentCountAfter(@, r),
                                !.failedCount = failedCountAfter(@, r)]
            IN  IF circuitBreaker(r)
                THEN Finalize(q, [h1 EXCEPT !.stoppedAt = Some(h.i)], recs)
                ELSE ForLoop(q, [h1 EXCEPT !.i = h.i + 1], recs)

Next ==
    \E q \in Reqs :
        \/ \E body \in RequestBodies :
               /\ ArrivesNext(q)
               /\ RowsFit(body.recipients.items)
               /\ SendEmails(q, body.recipients, body.subject, body.htmlBody,
                          body.csvName)
        \/ verifyResolve(q)
        \/ \E err \in Errors : verifyReject(q, err)
        \/ verifySleepDone(q)
        \/ sendMailResolve(q)
        \/ \E err \in Errors : sendMailReject(q, err)
        \/ sendSleepDone(q)
        \/ resume(q)

Spec == Init /\ [][Next]_vars

\* ------------------------------------------------- the scenario of C5
\* Three recipients [a@x.com, b@x.com, c@x.com]; the transport is a mock whose
\* sendMail always raises ECONNRESET for b@x.com and succeeds for every other
\* address, and whose verify may fail transiently but succeeds in the end.
ScenarioRecipients == <<1, 2, 3>>

CurrentEmail(q) ==
    getField(RecipientPool[req[q].recipients[req[q].i + 1]], S_Email, <<>>)

NextC5 ==
    \E q \in Reqs :
        \/ /\ ArrivesNext(q)
           /\ SendEmails(q, JsonArray(ScenarioRecipients), S_Hi_Name, S_Body, Null)
        \/ verifyResolve(q)
        \/ \E err \in {ErrReset, Err454} :
               /\ req[q].attempt < MAX_RETRIES
               /\ verifyReject(q, err)
        \/ verifySleepDone(q)
        \/ /\ req[q].pc = "sendMail"
           /\ CurrentEmail(q) # S_b_x_com
           /\ sendMailResolve(q)
        \/ /\ req[q].pc = "sendMail"
           /\ CurrentEmail(q) = S_b_x_com
           /\ sendMailReject(q, ErrReset)
        \/ sendSleepDone(q)
        \/ resume(q)

SpecC5 == Init /\ [][NextC5]_vars

\* ------------------------------------------------------------- fairness
\* Every transport call and every retry delay of request q eventually
\* returns, and a resolved await eventually resumes its handler.
Step(q) ==
    \/ verifyResolve(q)
    \/ \E err \in Errors : verifyReject(q, err)
    \/ verifySleepDone(q)
    \/ sendMailResolve(q)
    \/ \E err \in Errors : sendMailReject(q, err)
    \/ sendSleepDone(q)
    \/ resume(q)

FairSpec == Spec /\ \A q \in Reqs : WF_vars(Step(q))

\* ------------------------------------------------------ render: helpers
\* What the render handlers leave alone: the ledger, the dispatch handlers
\* and the clock.
dispatchVars == <<batches, batch_recipients, req, sendMailCalls, sleepCalls, now, call>>

\* String.prototype.trim, for blanks.
RECURSIVE trim(_)
trim(t) ==
    IF t = <<>> THEN t
    ELSE IF t[1] = " " THEN trim(Tail(t))
    ELSE IF t[Len(t)] = " " THEN trim(SubSeq(t, 1, Len(t) - 1))
    ELSE t

DigitChars == <<"0", "1", "2", "3", "4", "5", "6", "7", "8", "9">>

\* Number(req.params.id) for a non-empty path segment: the value of a string
\* of decimal digits, NaN (Null) for a string with another character.
RECURSIVE NumberOf(_, _)
NumberOf(t, acc) ==
    IF t = <<>> THEN Some(acc)
    ELSE LET d == {n \in 1..10 : DigitChars[n] = t[1]}
         IN  IF d = {} THEN Null
             ELSE NumberOf(Tail(t), 10 * acc + (CHOOSE n \in d : TRUE) - 1)

\* `${safeEmail || "recipient"}.pdf` (email-pdfs, recipient-pdf)
filename(email) ==
    (IF safeEmail(email) = <<>> THEN S_recipient ELSE safeEmail(email)) \o S_pdf

\* Mutant of csvFilename: no fallback for an empty address.
csvFilename_NoFallback(email) ==
    safeEmail(email) \o S_pdf

\* String(email || "recipient").replace(...) and `${safeEmail}.pdf` (csv-pdfs)
csvFilename(email) ==
    safeEmail(IF email = <<>> THEN S_recipient ELSE email) \o S_pdf

\* a || b for strings: the empty string (and null) is falsy.
OrElse(a, b) == IF a = <<>> THEN b ELSE a

\* One iteration of the loop of POST /api/email-pdfs up to page.setContent:
\* lines 425-451 and 467-468.
emailPdfsDocument(recipient, subject, htmlBody) ==
    LET email == getField(recipient, S_Email, S_unknown)
        name == getField(recipient, S_Name, S_Candidate)
        attrs == spread(<<[k |-> S_Name, v |-> Some(name)]>>, recipient, 1)
    IN  [filename |-> filename(email),
         html |-> fullHtml(applyTemplate(subject, attrs),
                           applyTemplate(htmlBody, attrs))]

\* One iteration of the loop of GET /api/csv-pdfs up to page.setContent:
\* lines 734-780 and 796-800. rec.data_json holds the attribute map the
\* dispatch request stored, which JSON.parse gives back.
csvPdfsDocument(rec, subject, html_body) ==
    LET data == rec.data_json
        email == OrElse(rec.email, getField(data, S_Email, S_unknown))
        name == OrElse(rec.name, getField(data, S_Name, S_Candidate))
        attrs == spread(<<[k |-> S_Name, v |-> Some(name)],
                          [k |-> S_Email, v |-> Some(email)]>>, data, 1)
    IN  [filename |-> csvFilename(email),
         html |-> fullHtml(applyTemplate(OrElse(subject, <<>>), attrs),
                           applyTemplate(OrElse(html_body, <<>>), attrs))]

\* GET /api/recipient-pdf/:id, lines 598-632 and 656-657, for the joined row.
recipientPdfDocument(row, subject, html_body) ==
    LET email == OrElse(row.email, S_unknown_example_com)
        name == OrElse(row.name, S_Candidate)
        data == row.data_json
        attrs == spread(<<[k |-> S_Name, v |-> Some(name)],
                          [k |-> S_Email, v |-> Some(email)]>>, data, 1)
    IN  [filename |-> filename(email),
         html |-> fullHtml(applyTemplate(OrElse(subject, S_No_subject), attrs),
                           applyTemplate(OrElse(html_body, <<>>), attrs))]

\* The sequences a SELECT may return for the rows S under an ORDER BY whose
\* strict order is the set of pairs before: every arrangement of S that puts no row after one
\* it must precede; rows the ORDER BY does not separate come in any order.
Orderings(S, before) ==
    {seq \in [1..Cardinality(S) -> S] :
        /\ \A i, j \in 1..Cardinality(S) : i # j => seq[i] # seq[j]
        /\ \A i, j \in 1..Cardinality(S) : i < j => <<seq[j], seq[i]>> \notin before}

\* ----------------------------------------------- render: requests arrive
\* A response that ends the request.
Answer(status, body) == [status |-> status, ended |-> TRUE, body |-> body]

\* POST /api/email-pdfs arrives: validation (lines 401-409, the same tests as
\* the dispatch handler's), then puppeteer.launch is called.
EmailPdfs(recipients, subject, htmlBody) ==
    /\ render.pc = "idle"
    /\ UNCHANGED dispatchVars
    /\ LET error == validationError(recipients, subject, htmlBody)
           h == [render EXCEPT !.kind = "email-pdfs",
                               !.input = Some(Body(recipients, subject, htmlBody, Null))]
       IN  IF error # Null
           THEN render' = [h EXCEPT !.pc = "done",
                                    !.res = Answer(400, [error |-> error[1]])]
           ELSE render' = [h EXCEPT !.pc = "launch",
                                    !.items = [n \in 1..Len(recipients.items) |->
                                                  RecipientPool[recipients.items[n]]],
                                    !.subject = subject, !.htmlBody = htmlBody]

\* GET /api/recipients?email= : lines 528-562. The rows come ORDER BY
\* b.created_at DESC, br.idx ASC.
Recipients(email) ==
    /\ render.pc = "idle"
    /\ UNCHANGED dispatchVars
    /\ LET h == [render EXCEPT !.kind = "recipients", !.input = Some(email),
                               !.pc = "done"]
       IN  IF email = <<>> \/ trim(email) = <<>>
           THEN render' = [h EXCEPT !.res = Answer(400, [error |-> "email query is required"])]
           ELSE LET hits == {n \in 1..Len(batch_recipients) :
                               ToLowerCase(batch_recipients[n].email)
                                   = ToLowerCase(trim(email))}
                    created(n) == batches[batch_recipients[n].batch_id].created_at
                    Before ==
                        {nm \in hits \X hits :
                            \/ created(nm[1]) > created(nm[2])
                            \/ /\ created(nm[1]) = created(nm[2])
                               /\ batch_recipients[nm[1]].idx < batch_recipients[nm[2]].idx}
                IN  \E rows \in Orderings(hits, Before) :
                        render' =
                            [h EXCEPT !.res =
                                Answer(200,
                                       [email |-> trim(email),
                                        results |->
                                            [k \in 1..Len(rows) |->
                                                LET br == batch_recipients[rows[k]]
                                                    b == batches[br.batch_id]
                                                IN  [recipient_id |-> br.id,
                                                     email |-> br.email,
                                                     name |-> br.name,
                                                     status |-> br.status,
                                                     attempt |-> br.attempt,
                                                     error |-> br.error,
                                                     idx |-> br.idx,
                                                     batch_id |-> b.id,
                                                     created_at |-> b.created_at,
                                                     subject |-> b.subject]]])]

\* GET /api/recipient-pdf/:id arrives: lines 566-636, up to puppeteer.launch.
\* The document is computed from the joined row before the launch.
RecipientPdf(id) ==
    /\ render.pc = "idle"
    /\ UNCHANGED dispatchVars
    /\ LET recipientId == NumberOf(id, 0)
           h == [render EXCEPT !.kind = "recipient-pdf", !.input = Some(id)]
           found == {n \in 1..Len(batch_recipients) :
                        /\ recipientId # Null
                        /\ batch_recipients[n].id = recipientId[1]
                        /\ batch_recipients[n].batch_id \in 1..Len(batches)}
       IN  IF falsy(recipientId)
           THEN render' = [h EXCEPT !.pc = "done",
                                    !.res = Answer(400, [error |-> "invalid recipient id"])]
           ELSE IF found = {}
           THEN render' = [h EXCEPT !.pc = "done",
                                    !.res = Answer(404, [error |-> "recipient not found"])]
           ELSE LET br == batch_recipients[CHOOSE n \in found : TRUE]
                    b == batches[br.batch_id]
                IN  render' = [h EXCEPT !.pc = "launch",
                                        !.items = <<[recipient_id |-> br.id,
                                                     email |-> br.email,
                                                     name |-> br.name,
                                                     data_json |-> br.data_json]>>,
                                        !.batchId = b.id,
                                        !.subject = b.subject,
                                        !.htmlBody = b.html_body]

\* The columns of a batch_recipients row that GET /api/csv-pdfs reads from its
\* SELECT * (lines 734-751), and the row's place in the batch.
Columns(rec) ==
    [id |-> rec.id, idx |-> rec.idx, email |-> rec.email, name |-> rec.name,
     data_json |-> rec.data_json]

\* GET /api/csv-pdfs?csvName= arrives: lines 680-726, up to puppeteer.launch.
\* The batch is the first row of ORDER BY datetime(created_at) DESC: one of
\* the matching batches with the greatest created_at.
CsvPdfs(csvName) ==
    /\ render.pc = "idle"
    /\ UNCHANGED dispatchVars
    /\ LET h == [render EXCEPT !.kind = "csv-pdfs", !.input = Some(csvName)]
           matching == {b \in 1..Len(batches) :
                           /\ batches[b].csv_name # <<>>
                           /\ ToLowerCase(batches[b].csv_name)
                                  = ToLowerCase(trim(csvName))}
           latest == {b \in matching :
                         \A c \in matching :
                             batches[c].created_at <= batches[b].created_at}
       IN  IF csvName = <<>> \/ trim(csvName) = <<>>
           THEN render' = [h EXCEPT !.pc = "done",
                                    !.res = Answer(400, [error |-> "csvName query is required"])]
           ELSE IF matching = {}
           THEN render' = [h EXCEPT !.pc = "done",
                                    !.res = Answer(404, [error |-> "No batch found for this csvName",
                                                         csvName |-> trim(csvName)])]
           ELSE \E b \in latest :
                    LET of_b == {n \in 1..Len(batch_recipients) :
                                    batch_recipients[n].batch_id = batches[b].id}
                        Before == {nm \in of_b \X of_b :
                                      batch_recipients[nm[1]].idx < batch_recipients[nm[2]].idx}
                    IN  \E recRows \in Orderings(of_b, Before) :
                            render' = [h EXCEPT !.pc = "launch",
                                                !.items = [k \in 1..Len(recRows) |->
                                                              Columns(batch_recipients[recRows[k]])],
                                                !.batchId = batches[b].id,
                                                !.subject = batches[b].subject,
                                                !.htmlBody = batches[b].html_body]

\* ------------------------------------------- render: the renderer steps
\* The three render handlers share their structure: launch, newPage, then
\* setContent and pdf per document, browser.close, and the answer.
Rendering == {"email-pdfs", "recipient-pdf", "csv-pdfs"}
Archiving == {"email-pdfs", "csv-pdfs"}

\* The failure a renderer or archive call rejects with.
ErrRenderer == [message |-> S_Target_closed]

\* The document of item h.i (0-based) of the handler h.
Document(h) ==
    LET item == h.items[h.i + 1]
    IN  IF h.kind = "email-pdfs"
        THEN emailPdfsDocument(item, h.subject, h.htmlBody)
        ELSE IF h.kind = "csv-pdfs"
        THEN csvPdfsDocument(item, h.subject, h.htmlBody)
        ELSE recipientPdfDocument(item, h.subject, h.htmlBody)

\* The head of the document loop: page.setContent for the next document, or
\* browser.close() after the last one.
NextDocument(h) ==
    IF h.i < Len(h.items)
    THEN [h EXCEPT !.pc = "setContent", !.content = Some(Document(h).html)]
    ELSE [h EXCEPT !.pc = "close", !.content = Null]

\* The 500 answer of the catch blocks (lines 514-524, 672-674, 846-856):
\* the json answer, or res.end() when the headers have gone out.
Answer500(h, err) ==
    IF h.kind = "recipient-pdf" \/ ~h.headersSent
    THEN [h EXCEPT !.pc = "done", !.err = Some(err),
                   !.res = Answer(500, [error |-> "PDF generation failed",
                                        details |-> err.message])]
    ELSE [h EXCEPT !.pc = "done", !.err = Some(err), !.res.ended = TRUE]

\* Mutant of Catch: the renderer instance is not closed.
Catch_NoClose(h, err) ==
    Answer500(h, err)

\* The catch blocks: if (browser) await browser.close(), then the answer.
Catch(h, err) ==
    IF h.browser = "open"
    THEN [h EXCEPT !.pc = "catchClose", !.err = Some(err)]
    ELSE Answer500(h, err)

\* puppeteer.launch resolves; browser.newPage() is called.
launchResolve ==
    /\ render.pc = "launch"
    /\ UNCHANGED dispatchVars
    /\ render' = [render EXCEPT !.pc = "newPage", !.browser = "open",
                                !.launches = @ + 1]

\* puppeteer.launch rejects: browser is still undefined.
launchReject(err) ==
    /\ render.pc = "launch"
    /\ UNCHANGED dispatchVars
    /\ render' = Catch(render, err)

\* browser.newPage() resolves: the timeouts are set and the loop starts.
newPageResolve ==
    /\ render.pc = "newPage"
    /\ UNCHANGED dispatchVars
    /\ render' = NextDocument([render EXCEPT !.i = 0, !.pdfFiles = <<>>])

newPageReject(err) ==
    /\ render.pc = "newPage"
    /\ UNCHANGED dispatchVars
    /\ render' = Catch(render, err)

\* page.setContent resolves; page.pdf is called.
setContentResolve ==
    /\ render.pc = "setContent"
    /\ UNCHANGED dispatchVars
    /\ render' = [render EXCEPT !.pc = "pdf"]

setContentReject(err) ==
    /\ render.pc = "setContent"
    /\ UNCHANGED dispatchVars
    /\ render' = Catch(render, err)

\* page.pdf resolves: the file is pushed and the loop goes on.
pdfResolve ==
    /\ render.pc = "pdf"
    /\ UNCHANGED dispatchVars
    /\ render' =
           NextDocument([render EXCEPT
                            !.pdfFiles = Append(@, [filename |-> Document(render).filename,
                                                    buffer |-> render.content[1]]),
                            !.i = @ + 1])

pdfReject(err) ==
    /\ render.pc = "pdf"
    /\ UNCHANGED dispatchVars
    /\ render' = Catch(render, err)

\* browser.close() resolves on the success path; browser = null. The single
\* document is sent (recipient-pdf), or the headers are set, the archive is
\* piped to res, every file is appended and archive.finalize() is called.
\* (browser.close() is taken to end the instance whenever it is called.)
closeResolve ==
    /\ render.pc = "close"
    /\ UNCHANGED dispatchVars
    /\ IF render.kind = "recipient-pdf"
       THEN render' = [render EXCEPT !.pc = "done", !.browser = "closed",
                                    !.headersSent = TRUE,
                                    !.res = Answer(200, [filename |-> render.pdfFiles[1].filename,
                                                         pdf |-> render.pdfFiles[1].buffer])]
       ELSE render' = [render EXCEPT !.pc = "archive", !.browser = "closed",
                                    !.entries = [n \in 1..Len(render.pdfFiles) |->
                                                    [name |-> render.pdfFiles[n].filename,
                                                     buffer |-> render.pdfFiles[n].buffer]]]

\* browser.close() of a catch block ends (a failure is ignored), then the
\* answer.
catchCloseDone ==
    /\ render.pc = "catchClose"
    /\ UNCHANGED dispatchVars
    /\ render' = Answer500([render EXCEPT !.browser = "closed"], render.err[1])

\* The archive pipes its first bytes into res: the headers go out with
\* status 200.
archiveData ==
    /\ render.pc = "archive"
    /\ ~render.headersSent
    /\ UNCHANGED dispatchVars
    /\ render' = [render EXCEPT !.headersSent = TRUE, !.res.status = 200]

\* archive.finalize() resolves: every entry has been written and res ended.
archiveEnd ==
    /\ render.pc = "archive"
    /\ render.headersSent
    /\ UNCHANGED dispatchVars
    /\ render' = [render EXCEPT !.pc = "done",
                                !.res = Answer(200, [zip |-> render.entries])]

\* The archive emits "error": the handler of lines 483-496 / 815-828 answers
\* 500 when no header has gone out and ends the response otherwise; the
\* rejected archive.finalize() then reaches the catch block, which finds the
\* headers sent.
archiveError(err) ==
    /\ render.pc = "archive"
    /\ UNCHANGED dispatchVars
    /\ IF ~render.headersSent
       THEN render' = [render EXCEPT !.pc = "done", !.headersSent = TRUE,
                                    !.err = Some(err),
                                    !.res = Answer(500, [error |-> "ZIP archive error",
                                                         details |-> err.message])]
       ELSE render' = [render EXCEPT !.pc = "done", !.err = Some(err),
                                    !.res.ended = TRUE]

\* One second passes. Only a second in which a batch was created, and after
\* which a dispatch request can still arrive, is told from the next.
Tick ==
    /\ \E b \in 1..Len(batches) : batches[b].created_at = now
    /\ \E q \in Reqs : req[q].pc = "idle"
    /\ now' = now + 1
    /\ UNCHANGED <<batches, batch_recipients, req, sendMailCalls, sleepCalls, render, call>>

\* ------------------------------------------------ render: specification
\* The dispatch requests that fill the ledger the render requests read: every
\* recipients array, tagged with the source name "list.csv"; the body
\* template goes with the first recipient, so that batches differ in it.
TaggedBodies ==
    {Body(JsonArray(l), S_Hi_Name, IF l[1] = 1 THEN S_Body ELSE S_Hello_Name,
          S_list_csv) : l \in RecipientLists}

\* The recipients arrays of POST /api/email-pdfs: one with an address that
\* holds a blank, one with the same address twice, one with a recipient
\* without Email key and a recipient whose Email is empty.
AdHocLists == {<<6, 1>>, <<1, 1>>, <<4, 5>>}
AdHocBodies ==
    {Body(JsonArray(l), S_Hi_Name, S_Body, Null) : l \in AdHocLists}
    \cup {Body(NotAnArray, S_Hi_Name, S_Body, Null),
          Body(JsonArray(<<1>>), S_Hi_Name, <<>>, Null)}

\* The :id path segments of GET /api/recipient-pdf: the ids of the rows the
\* ledger can hold, one beyond them, zero, and a segment that is no number.
IdSegments == {<<DigitChars[n + 1]>> : n \in 0..(MaxRows + 1)} \cup {S_x}

\* The csvName queries of GET /api/csv-pdfs and the email queries of
\* GET /api/recipients.
CsvNameQueries == {<<>>, S_blank, S_LIST_CSV, S_other_csv}
EmailQueries == {<<>>, ToUpperCase(S_a_x_com) \o S_blank, S_b_x_com}

\* Dispatch requests whose transport verifies at once and delivers every
\* message, the clock, and one render request that arrives at any moment.
RenderNext ==
    \/ \E q \in Reqs :
           \/ \E body \in TaggedBodies :
                  /\ ArrivesNext(q)
                  /\ RowsFit(body.recipients.items)
                  /\ SendEmails(q, body.recipients, body.subject, body.htmlBody,
                                body.csvName)
           \/ verifyResolve(q)
           \/ sendMailResolve(q)
           \/ resume(q)
    \/ Tick
    \/ \E body \in AdHocBodies :
           EmailPdfs(body.recipients, body.subject, body.htmlBody)
    \/ \E email \in EmailQueries : Recipients(email)
    \/ \E id \in IdSegments : RecipientPdf(id)
    \/ \E csvName \in CsvNameQueries : CsvPdfs(csvName)
    \/ launchResolve
    \/ launchReject(ErrRenderer)
    \/ newPageResolve
    \/ newPageReject(ErrRenderer)
    \/ setContentResolve
    \/ setContentReject(ErrRenderer)
    \/ pdfResolve
    \/ pdfReject(ErrRenderer)
    \/ closeResolve
    \/ catchCloseDone
    \/ archiveData
    \/ archiveEnd
    \/ archiveError(ErrRenderer)

RenderSpec == Init /\ [][RenderNext]_vars

\* ------------------------------------------------- functions on their own
\* The classifier, the template engine and the personalization of the four
\* handlers are functions of their arguments alone. Here each is called on
\* arguments drawn from a set, outside any request; call.returned collects
\* the values the calls return.
handlerVars == <<batches, batch_recipients, req, sendMailCalls, sleepCalls, now, render>>

\* The errors given to the classifier: every combination of a machine code, a
\* protocol response code, a message and a response text.
ErrorCodes ==
    {<<>>, S_ECONNRESET, ToLowerCase(S_ECONNRESET), S_EAUTH, S_EENVELOPE}
ResponseCodes == {Null, Some(454), Some(550)}
ErrorTexts ==
    {<<>>, S_454_Try_again_later, ToUpperCase(S_454_Try_again_later),
     S_read_ECONNRESET, S_550_No_such_user, ToUpperCase(S_connection_reset),
     ToUpperCase(S_temporary_authentication_failure)}
ClassifierInputs ==
    [code : ErrorCodes, responseCode : ResponseCodes,
     message : ErrorTexts, response : ErrorTexts]

\* The catch block of sendToRecipientWithRetry classifies err: lines 197-198
\* and 218.
Classify ==
    /\ call.fn = "classify"
    /\ call' = [call EXCEPT !.returned =
                   @ \cup {reason(isTemporaryAuthError(call.args.err),
                                  isNetworkError(call.args.err))}]
    /\ UNCHANGED handlerVars

\* The templates and attribute maps given to applyTemplate.
Templates ==
    {<<>>, S_Hi, S_Hi_Name, S_name_placeholder, S_City_Name,
     S_name_placeholder \o S_Hi_Name}
AttributeMaps ==
    {<<>>,
     <<[k |-> S_Name, v |-> Some(S_Ada)]>>,
     <<[k |-> ToLowerCase(S_Name), v |-> Some(S_Bob)]>>,
     <<[k |-> ToUpperCase(S_Name), v |-> Some(S_Bob)]>>,
     <<[k |-> S_City, v |-> Some(S_Oslo)]>>,
     <<[k |-> S_City, v |-> Null], [k |-> S_Email, v |-> Some(S_a_x_com)]>>,
     <<[k |-> <<>>, v |-> Some(S_Ada)]>>,
     <<[k |-> S_Name, v |-> Some(S_Ada)], [k |-> S_City, v |-> Some(S_Oslo)]>>,
     <<[k |-> S_Email, v |-> Some(S_Name_placeholder)]>>}

\* applyTemplate(template, recipient): lines 109-123.
ApplyTemplate ==
    /\ call.fn = "applyTemplate"
    /\ call' = [call EXCEPT !.returned =
                   @ \cup {applyTemplate(call.args.template, call.args.recipient)}]
    /\ UNCHANGED handlerVars

\* mailOptions of sendToRecipientWithRetry for a recipient with an email:
\* lines 166-189.
mailOptions(recipient, subjectTemplate, htmlBodyTemplate) ==
    LET email == getField(recipient, S_Email, <<>>)
        name == getField(recipient, S_Name, S_Candidate)
        attrs == spread(<<[k |-> S_Name, v |-> Some(name)]>>, recipient, 1)
    IN  [to |-> email,
         subject |-> OrElse(applyTemplate(subjectTemplate, attrs), S_No_subject),
         html |-> OrElse(applyTemplate(htmlBodyTemplate, attrs),
                         S_p_Dear \o name \o S_p_end)]

\* The name columns of the recipients given to the handlers' personalization:
\* none, and a Name or name attribute that holds a text, "" or null.
NameColumns ==
    {<<>>} \cup {<<[k |-> key, v |-> value]>> :
                    key \in {S_Name, ToLowerCase(S_Name)},
                    value \in {Some(S_Ada), Some(<<>>), Null}}
Personalizing == {"send-emails", "email-pdfs", "recipient-pdf", "csv-pdfs"}

\* The subject a handler personalizes for a recipient: the mail's subject
\* (lines 179-187), or the title of the document (lines 425-429, 598-610,
\* 734-758). The two handlers that read the ledger get the row that
\* POST /api/send-emails stored for the recipient (lines 272-276).
Personalize ==
    /\ call.fn \in Personalizing
    /\ LET recipient == call.args.recipient
           row == [email |-> getField(recipient, S_Email, <<>>),
                   name |-> getField(recipient, S_Name, <<>>),
                   data_json |-> recipient]
           subject == call.args.subject
           htmlBody == call.args.htmlBody
           personalizedSubject ==
               CASE call.fn = "send-emails" ->
                        mailOptions(recipient, subject, htmlBody).subject
                 [] call.fn = "email-pdfs" ->
                        emailPdfsDocument(recipient, subject, htmlBody).html.title
                 [] call.fn = "recipient-pdf" ->
                        recipientPdfDocument(row, subject, htmlBody).html.title
                 [] call.fn = "csv-pdfs" ->
                        csvPdfsDocument(row, subject, htmlBody).html.title
       IN  call' = [call EXCEPT !.returned = @ \cup {personalizedSubject}]
    /\ UNCHANGED handlerVars

\* The calls: one function, one argument list, nothing returned yet.
Calls ==
    {[fn |-> "classify", args |-> [err |-> err], returned |-> {}] :
        err \in ClassifierInputs}
    \cup {[fn |-> "applyTemplate", args |-> [template |-> t, recipient |-> a],
           returned |-> {}] : t \in Templates, a \in AttributeMaps}
    \cup {[fn |-> fn,
           args |-> [recipient |-> <<[k |-> S_Email, v |-> Some(S_a_x_com)]>> \o n,
                     subject |-> S_Hi_Name, htmlBody |-> S_Body],
           returned |-> {}] : fn \in Personalizing, n \in NameColumns}

CallInit ==
    /\ call \in Calls
    /\ batches = <<>>
    /\ batch_recipients = <<>>
    /\ req = [q \in Reqs |-> InitReq]
    /\ sendMailCalls = [q \in Reqs |-> <<>>]
    /\ sleepCalls = [q \in Reqs |-> <<>>]
    /\ now = 0
    /\ render = InitRender

CallNext ==
    \/ Classify
    \/ ApplyTemplate
    \/ Personalize

CallSpec == CallInit /\ [][CallNext]_vars

\* ------------------------------------------------------------ vocabulary
Batches == 1..Len(batches)
Rows == 1..Len(batch_recipients)
Terminal(row) == row.status \in {"sent", "error"}
Finalized(b) == batches[b].status # "in_progress"
\* The requests that got past validation: they own a batch.
Accepted(q) == req[q].batchId # 0
\* The recipient row of batch b at index idx.
RowAt(b, idx) ==
    batch_recipients[CHOOSE n \in Rows :
                        /\ batch_recipients[n].batch_id = b
                        /\ batch_recipients[n].idx = idx]

\* ------------------------------------------------------------------ C1
\* C1: for every finalized batch, status = completed if and only if
\* processed = total and the stop index is null.
C1_CompletedIff ==
    \A b \in Batches :
        Finalized(b) =>
            (batches[b].status = "completed"
                <=> (batches[b].processed = batches[b].total
                     /\ batches[b].stopped_at = Null))

\* ------------------------------------------------------------------ C2
\* C2: every batch row satisfies processed = sent + failed and
\* processed <= total, in every reachable state of the ledger.
C2_ProcessedIsSentPlusFailed ==
    \A b \in Batches :
        /\ batches[b].processed = batches[b].sent + batches[b].failed
        /\ batches[b].processed <= batches[b].total

\* A batch finalized by the end-of-loop path with one sent and one failed
\* recipient.
C2_Witness ==
    \E b \in Batches :
        /\ Finalized(b)
        /\ batches[b].error = Null
        /\ batches[b].sent = 1
        /\ batches[b].failed = 1

\* ------------------------------------------------------------------ C3
\* C3: whenever a batch row has a non-null stop index k, every recipient row
\* of the batch with index > k is pending, and the row at index k is error
\* with terminal failure class NETWORK or TEMP_AUTH.
C3_StopIndex ==
    \A q \in Reqs :
        (Accepted(q) /\ batches[req[q].batchId].stopped_at # Null) =>
            LET b == req[q].batchId
                k == batches[b].stopped_at[1]
            IN  /\ \A n \in Rows :
                      (batch_recipients[n].batch_id = b /\ batch_recipients[n].idx > k)
                          => batch_recipients[n].status = "pending"
                /\ RowAt(b, k).status = "error"
                /\ Len(req[q].results) = k + 1
                /\ req[q].results[k + 1].reason \in {"NETWORK", "TEMP_AUTH"}

\* A batch of two stopped at index 0: the row at index 1 was never reached.
C3_Witness ==
    \E b \in Batches :
        /\ batches[b].total = 2
        /\ batches[b].stopped_at = Some(0)
        /\ RowAt(b, 1).status = "pending"

\* ------------------------------------------------------------------ C4
\* C4 (as claimed): every recipient row with a terminal status has a persisted
\* attempt count in 1..3, also for attribute maps without an email value.
C4_AttemptInRange ==
    \A n \in Rows :
        Terminal(batch_recipients[n]) => batch_recipients[n].attempt \in 1..3

\* C4 (amended): a terminal recipient row has attempt in 1..3 when the
\* recipient carries an email value; a recipient without one is recorded as
\* error with attempt 0.
C4_AttemptInRangeOrZero ==
    \A n \in Rows :
        Terminal(batch_recipients[n]) =>
            IF batch_recipients[n].email # <<>>
            THEN batch_recipients[n].attempt \in 1..3
            ELSE /\ batch_recipients[n].attempt = 0
                 /\ batch_recipients[n].status = "error"

\* A terminal row without email next to a terminal row that used all three
\* attempts.
C4_Witness ==
    \E n, m \in Rows :
        /\ Terminal(batch_recipients[n])
        /\ batch_recipients[n].email = <<>>
        /\ Terminal(batch_recipients[m])
        /\ batch_recipients[m].attempt = 3

\* ------------------------------------------------------------------ C5
\* C5: in the scenario (3 recipients a, b, c; verification succeeds; sending
\* to a succeeds; every send to b fails with ECONNRESET) the run ends with
\* a = sent with attempt 1; b = error/NETWORK with attempt 3 after exactly 3
\* sends separated by retry delays; c = pending and never sent to; batch
\* stopped, stop index 1, sent 1, failed 1, processed 2.
C5_Scenario ==
    \A q \in Reqs :
        Accepted(q) =>
            LET b == req[q].batchId
            IN  /\ sendMailCalls[q][2] = 0
                /\ RowAt(b, 2).status = "pending"
                /\ \A n \in 0..2 :
                      /\ sleepCalls[q][n] <= sendMailCalls[q][n]
                      /\ sendMailCalls[q][n] <= sleepCalls[q][n] + 1
                /\ (req[q].pc = "done" /\ req[q].res.status = 200) =>
                      /\ RowAt(b, 0).status = "sent"
                      /\ RowAt(b, 0).attempt = 1
                      /\ sendMailCalls[q][0] = 1
                      /\ RowAt(b, 1).status = "error"
                      /\ RowAt(b, 1).attempt = 3
                      /\ req[q].results[2].reason = "NETWORK"
                      /\ sendMailCalls[q][1] = 3
                      /\ sleepCalls[q][1] = 2
                      /\ batches[b].status = "stopped"
                      /\ batches[b].stopped_at = Some(1)
                      /\ batches[b].sent = 1
                      /\ batches[b].failed = 1
                      /\ batches[b].processed = 2

\* Both scenario runs have ended.
C5_Witness ==
    \A q \in Reqs : req[q].pc = "done" /\ req[q].res.status = 200

\* ------------------------------------------------------------------ C6
\* What a terminally failed verification leaves behind for request q.
VerifyFailureOutcome(q) ==
    LET b == req[q].batchId
    IN  /\ req[q].pc = "done"
        /\ req[q].res.status = 500
        /\ batches[b].status = "stopped"
        /\ batches[b].sent = 0
        /\ batches[b].failed = 0
        /\ batches[b].processed = 0
        /\ batches[b].stopped_at = Null
        /\ batches[b].error # Null
        /\ \A n \in Rows :
              batch_recipients[n].batch_id = b =>
                  /\ batch_recipients[n].status = "pending"
                  /\ batch_recipients[n].attempt = 0
        /\ \A n \in DOMAIN sendMailCalls[q] : sendMailCalls[q][n] = 0

\* A verify() call of q fails terminally in this step: it raises a
\* non-retryable error, or any error on attempt 3.
VerifyFailsTerminally(q) ==
    /\ req[q].pc = "verify"
    /\ req'[q].err # Null
    /\ req[q].attempt = 3 \/ req'[q].err = Some(Err550)

\* C6: if connectivity verification fails terminally (retryable errors on all
\* 3 attempts, or a non-retryable error on any attempt), the batch is
\* finalized stopped with sent = failed = processed = 0, null stop index and
\* a non-null fatal error, no send is ever attempted, every recipient row
\* stays pending, and the caller receives a 500.
C6_VerifyFailure ==
    /\ [][\A q \in Reqs : VerifyFailsTerminally(q) => VerifyFailureOutcome(q)']_vars
    /\ [](\A q \in Reqs : req[q].res.status = 500 => VerifyFailureOutcome(q))

\* A request answered 500 after ECONNRESET on all three verify attempts, and
\* another answered 500 after a non-retryable error.
C6_Witness ==
    \E q1, q2 \in Reqs :
        /\ req[q1].res.status = 500
        /\ req[q1].err = Some(ErrReset)
        /\ req[q2].res.status = 500
        /\ req[q2].err = Some(Err550)

\* ------------------------------------------------------------------ C7
\* Recipient i of request q ended as error with class OTHER and is not the
\* last recipient of its batch.
OtherAt(q, i) ==
    /\ Accepted(q)
    /\ i < Len(req[q].recipients) - 1
    /\ Len(req[q].results) > i
    /\ req[q].results[i + 1].status = "error"
    /\ req[q].results[i + 1].reason = "OTHER"

NextReached(q, i) ==
    \E n \in Rows :
        /\ batch_recipients[n].batch_id = req[q].batchId
        /\ batch_recipients[n].idx = i + 1
        /\ Terminal(batch_recipients[n])

\* C7: an error of class OTHER never stops the batch: the stop index is never
\* the index of an OTHER failure, and when recipient i < total-1 ends as
\* error/OTHER, recipient i+1 is subsequently processed and reaches a
\* terminal status (results and terminal rows are never taken back, so this is
\* stated as: from some point on, every OTHER failure at a non-last index has
\* a terminal successor row).
C7_OtherNeverStops ==
    /\ [](\A q \in Reqs :
            \A k \in 1..Len(req[q].results) :
                req[q].results[k].reason = "OTHER" =>
                    /\ req[q].stoppedAt # Some(k - 1)
                    /\ batches[req[q].batchId].stopped_at # Some(k - 1))
    /\ <>[](\A q \in Reqs, i \in 0..(MaxRows - 2) :
              OtherAt(q, i) => NextReached(q, i))

\* Recipient 0 ended as error/OTHER after a transport send, and recipient 1 of
\* the same batch has a terminal status.
C7_Witness ==
    \E q \in Reqs :
        /\ OtherAt(q, 0)
        /\ req[q].results[1].attempt >= 1
        /\ NextReached(q, 0)

\* ------------------------------------------------------------------ C8
\* What one step may do to the recipient rows: rows are only added, as
\* pending; a terminal row is left as it is; a pending row changes only in
\* status, attempt and error, only to sent or error, and only when the
\* request that owns its batch resumes from the send for that index.
RecStep ==
    /\ Len(batch_recipients') >= Len(batch_recipients)
    /\ \A n \in Rows :
          LET old == batch_recipients[n]
              new == batch_recipients'[n]
          IN  /\ Terminal(old) => new = old
              /\ new # old =>
                    /\ old.status = "pending"
                    /\ new.status \in {"sent", "error"}
                    /\ [new EXCEPT !.status = old.status, !.attempt = old.attempt,
                                   !.error = old.error] = old
                    /\ \E q \in Reqs :
                          /\ req[q].pc = "resume"
                          /\ req[q].batchId = old.batch_id
                          /\ req[q].i = old.idx
                          /\ req'[q] # req[q]
    /\ \A n \in (Len(batch_recipients) + 1)..Len(batch_recipients') :
          /\ batch_recipients'[n].status = "pending"
          /\ batch_recipients'[n].attempt = 0
          /\ batch_recipients'[n].error = Null

\* C8: each recipient row starts pending and changes status at most once, to
\* sent or error; once it is sent or error no later step of any request
\* changes its status, attempt count or error; rows the batch never reached
\* are never updated.
C8_RowWrittenOnce ==
    /\ [][RecStep]_vars
    /\ [](\A n \in Rows :
            /\ batch_recipients[n].status \in {"pending", "sent", "error"}
            /\ batch_recipients[n].status = "pending" =>
                  /\ batch_recipients[n].attempt = 0
                  /\ batch_recipients[n].error = Null)
    /\ [](\A q \in Reqs : \A n \in Rows :
            (/\ Accepted(q)
             /\ batch_recipients[n].batch_id = req[q].batchId
             /\ batch_recipients[n].idx >= Len(req[q].results))
                => batch_recipients[n].status = "pending")

\* Two batches each hold a terminal row: the later write left the earlier
\* row alone.
C8_Witness ==
    \E n, m \in Rows :
        /\ batch_recipients[n].batch_id # batch_recipients[m].batch_id
        /\ Terminal(batch_recipients[n])
        /\ Terminal(batch_recipients[m])

\* ------------------------------------------------------------------ C9
\* What one step may do to the batch rows: rows are only added, as
\* in_progress; a terminal row is left as it is; an in_progress row changes
\* only to stopped or completed, and only in the step in which the request
\* that owns it ends, by the verify-failure path or by the end-of-loop path.
BatchStep ==
    /\ Len(batches') >= Len(batches)
    /\ \A b \in Batches :
          LET old == batches[b]
              new == batches'[b]
          IN  /\ Finalized(b) => new = old
              /\ new # old =>
                    /\ old.status = "in_progress"
                    /\ new.status \in {"stopped", "completed"}
                    /\ \E q \in Reqs :
                          /\ req[q].batchId = b
                          /\ req'[q].pc = "done"
                          /\ \/ req[q].pc = "verify" /\ req'[q].res.status = 500
                             \/ req[q].pc = "resume" /\ req'[q].res.status = 200
    /\ \A b \in (Len(batches) + 1)..Len(batches') :
          batches'[b].status = "in_progress"

\* C9: a batch row's status leaves in_progress at most once and only to
\* stopped or completed; once terminal the row is never written again; the
\* row is finalized once per request that reaches verification, by the
\* verify-failure path or the end-of-loop path.
C9_BatchFinalizedOnce ==
    /\ [][BatchStep]_vars
    /\ [](\A q \in Reqs :
            Accepted(q) =>
                (Finalized(req[q].batchId) <=> req[q].pc = "done"))

\* One batch finalized by the verify-failure path and one by the end-of-loop
\* path.
C9_Witness ==
    \E q1, q2 \in Reqs :
        /\ Accepted(q1) /\ req[q1].res.status = 500
        /\ Accepted(q2) /\ req[q2].res.status = 200
        /\ Finalized(req[q1].batchId)
        /\ Finalized(req[q2].batchId)

\* ----------------------------------------------------------------- C10
\* C10: when every transport call and retry delay eventually returns, every
\* accepted dispatch request eventually finalizes its batch to completed or
\* stopped and produces a response, and no batch stays in_progress forever
\* (an accepted request stays accepted and a batch row stays in the table, so
\* this is stated as: from some point on, every accepted request has answered
\* with its batch terminal, and every batch row is terminal).
C10_EventuallyFinalized ==
    /\ <>[](\A q \in Reqs :
              Accepted(q) =>
                  /\ req[q].pc = "done"
                  /\ req[q].res.status \in {200, 500}
                  /\ batches[req[q].batchId].status \in {"completed", "stopped"})
    /\ <>[](\A b \in Batches : batches[b].status \in {"completed", "stopped"})

\* A request that slept between retries and then answered 200.
C10_Witness ==
    \E q \in Reqs :
        /\ req[q].pc = "done"
        /\ req[q].res.status = 200
        /\ \E n \in DOMAIN sleepCalls[q] : sleepCalls[q][n] = 2

\* A request body the validation has to reject: recipients empty or not an
\* array, or subject or body missing.
Invalid(body) ==
    \/ ~body.recipients.isArray
    \/ body.recipients.items = <<>>
    \/ body.subject = <<>>
    \/ body.htmlBody = <<>>

\* C11: a dispatch request with an empty or non-array recipients list, or
\* with a missing subject or body, is answered 400 in the step it arrives; that
\* step creates no batch row and no recipient row and makes no transport call,
\* and the rejected request takes no further step (it never verifies or
\* sends).
C11_RejectedNoPartialWork ==
    [][\A q \in Reqs :
          /\ (req[q].pc = "idle" /\ req'[q].pc # "idle" /\ Invalid(req'[q].body[1]))
                 => /\ req'[q].pc = "done"
                    /\ req'[q].res.status = 400
                    /\ req'[q].batchId = 0
                    /\ batches' = batches
                    /\ batch_recipients' = batch_recipients
                    /\ sendMailCalls' = sendMailCalls
                    /\ sleepCalls' = sleepCalls
          /\ req[q].res.status = 400 => req'[q] = req[q]]_vars

\* Both requests were rejected, one for a recipients value that is not an
\* array and one for a missing subject, and the ledger is empty.
C11_Witness ==
    /\ req[1].res.status = 400
    /\ ~req[1].body[1].recipients.isArray
    /\ req[2].res.status = 400
    /\ req[2].body[1].recipients.isArray
    /\ req[2].body[1].subject = <<>>
    /\ batches = <<>>
    /\ batch_recipients = <<>>

\* The recipient rows of batch b.
RowsOf(b) == {n \in Rows : batch_recipients[n].batch_id = b}

\* C12: in every reachable state the non-pending recipient rows of a batch are
\* the rows of indexes 0..j-1 for some j, and every row of index >= j is
\* pending; and once a send for index k has been made, every row of the
\* batch with a smaller index is terminal.
C12_TerminalPrefix ==
    /\ \A b \in Batches :
          \E j \in 0..batches[b].total :
              \A n \in RowsOf(b) :
                  IF batch_recipients[n].idx < j
                  THEN batch_recipients[n].status # "pending"
                  ELSE batch_recipients[n].status = "pending"
    /\ \A q \in Reqs :
          \A k \in DOMAIN sendMailCalls[q] :
              sendMailCalls[q][k] > 0 =>
                  \A n \in RowsOf(req[q].batchId) :
                      batch_recipients[n].idx < k => Terminal(batch_recipients[n])

\* A send for index 1 is in flight: the row of index 0 is terminal and the
\* row of index 1 is still pending.
C12_Witness ==
    \E q \in Reqs :
        /\ req[q].pc = "sendMail"
        /\ req[q].i = 1
        /\ sendMailCalls[q][1] > 0
        /\ Terminal(RowAt(req[q].batchId, 0))
        /\ RowAt(req[q].batchId, 1).status = "pending"

\* Request q has not got past connectivity verification yet.
Verifying(q) == req[q].pc \in {"verify", "verifySleep"}

\* C13: every batch row has exactly total recipient rows, with indexes exactly
\* 0..total-1, unique within the batch, stored in submission order (the row of
\* index i holds the attributes of recipients[i], and ids grow with the
\* index); this holds in every state, so no step of another request sees a
\* batch with part of its rows. While the owning request is still verifying
\* connectivity (no send has been made), the batch is in_progress and all its
\* rows are pending with attempt 0.
C13_RowsCreatedWithBatch ==
    /\ \A b \in Batches :
          /\ Cardinality(RowsOf(b)) = batches[b].total
          /\ {batch_recipients[n].idx : n \in RowsOf(b)} = 0..(batches[b].total - 1)
          /\ \A n, m \in RowsOf(b) :
                 batch_recipients[n].idx < batch_recipients[m].idx => n < m
    /\ \A q \in Reqs :
          Accepted(q) =>
              /\ batches[req[q].batchId].total = Len(req[q].recipients)
              /\ \A n \in RowsOf(req[q].batchId) :
                     batch_recipients[n].data_json =
                         RecipientPool[req[q].recipients[batch_recipients[n].idx + 1]]
    /\ \A q \in Reqs :
          Verifying(q) =>
              /\ batches[req[q].batchId].status = "in_progress"
              /\ \A k \in DOMAIN sendMailCalls[q] : sendMailCalls[q][k] = 0
              /\ \A n \in RowsOf(req[q].batchId) :
                     /\ batch_recipients[n].status = "pending"
                     /\ batch_recipients[n].attempt = 0

\* The first verify() of a request with two recipients is in flight while the
\* other request has not arrived: its batch has its two pending rows.
C13_Witness ==
    /\ req[1].pc = "verify"
    /\ req[1].attempt = 1
    /\ req[2].pc = "idle"
    /\ batches[1].total = 2
    /\ Cardinality(RowsOf(1)) = 2
    /\ \A n \in RowsOf(1) : batch_recipients[n].status = "pending"

\* ----------------------------------------------------------------- C14
\* One step is taken by one request, and every ledger row it writes or adds
\* belongs to the batch of that request.
WritesOwnRows ==
    /\ \A p, q \in Reqs : (req'[p] # req[p] /\ req'[q] # req[q]) => p = q
    /\ \A n \in Rows :
          batch_recipients'[n] # batch_recipients[n] =>
              \E q \in Reqs : /\ req'[q] # req[q]
                              /\ req[q].batchId = batch_recipients[n].batch_id
    /\ \A n \in (Len(batch_recipients) + 1)..Len(batch_recipients') :
          \E q \in Reqs : /\ req'[q] # req[q]
                          /\ req'[q].batchId = batch_recipients'[n].batch_id
    /\ \A b \in Batches :
          batches'[b] # batches[b] =>
              \E q \in Reqs : req'[q] # req[q] /\ req[q].batchId = b
    /\ \A b \in (Len(batches) + 1)..Len(batches') :
          \E q \in Reqs : req'[q] # req[q] /\ req'[q].batchId = b

\* What a request running alone leaves in the recipient row of index idx,
\* given the outcomes its own transport calls had so far (results).
AloneRow(results, idx) ==
    IF idx < Len(results)
    THEN [status |-> IF results[idx + 1].status = "sent" THEN "sent" ELSE "error",
          attempt |-> results[idx + 1].attempt,
          error |-> results[idx + 1].error]
    ELSE [status |-> "pending", attempt |-> 0, error |-> Null]

\* What a request running alone leaves in its batch row when it answers 200,
\* given the outcomes of its own transport calls (results).
AloneBatch(total, results) ==
    LET processed == Len(results)
        stop == IF /\ processed > 0
                   /\ results[processed].status = "error"
                   /\ results[processed].reason \in {"NETWORK", "TEMP_AUTH"}
                THEN Some(processed - 1) ELSE Null
    IN  [sent |-> Cardinality({k \in 1..processed : results[k].status = "sent"}),
         failed |-> Cardinality({k \in 1..processed : results[k].status = "error"}),
         processed |-> processed,
         status |-> finalStatus(processed, total, stop),
         stopped_at |-> stop,
         error |-> Null]

\* The columns of batch row b that a request writes.
Written(b) ==
    [sent |-> batches[b].sent, failed |-> batches[b].failed,
     processed |-> batches[b].processed, status |-> batches[b].status,
     stopped_at |-> batches[b].stopped_at, error |-> batches[b].error]

\* C14: requests that run concurrently get distinct batch ids; every step of a
\* request writes only rows of its own batch; and the rows of each batch hold
\* what the request would have left there running alone with the same
\* transport outcomes: each recipient row follows from the request's own
\* results, and the finalized batch row from its own results (answer 200) or
\* from its own verification failure (answer 500).
C14_NoCrossBatchInterference ==
    /\ [][WritesOwnRows]_vars
    /\ [](\A p, q \in Reqs :
            (Accepted(p) /\ Accepted(q) /\ p # q) => req[p].batchId # req[q].batchId)
    /\ [](\A q \in Reqs :
            Accepted(q) =>
                LET b == req[q].batchId
                IN  /\ \A n \in RowsOf(b) :
                           [status |-> batch_recipients[n].status,
                            attempt |-> batch_recipients[n].attempt,
                            error |-> batch_recipients[n].error]
                               = AloneRow(req[q].results, batch_recipients[n].idx)
                    /\ req[q].res.status = 200 =>
                           Written(b) = AloneBatch(batches[b].total, req[q].results)
                    /\ req[q].res.status = 500 =>
                           /\ req[q].results = <<>>
                           /\ Written(b) =
                                  [sent |-> 0, failed |-> 0, processed |-> 0,
                                   status |-> "stopped", stopped_at |-> Null,
                                   error |-> Some(S_SMTP_verify_failed
                                                  \o errorText(req[q].err[1]))])

\* The request that arrived second has answered 200 with its recipient sent
\* while the request that arrived first is still between two send attempts,
\* its row pending.
C14_Witness ==
    /\ req[1].pc = "sendSleep"
    /\ RowAt(req[1].batchId, 0).status = "pending"
    /\ req[2].pc = "done"
    /\ req[2].res.status = 200
    /\ RowAt(req[2].batchId, 0).status = "sent"
    /\ batches[req[2].batchId].status = "completed"

\* ----------------------------------------------------------------- C15
\* C15: a render request launches at most one renderer instance, and only the
\* three render endpoints launch one; its documents are rendered one after
\* another in that instance (the document in flight is the one that follows
\* the files already printed, and the instance is open while a document is
\* in flight); the instance is closed before the archive is written, and
\* whenever the request has ended, by success or by a failure at any point,
\* no instance is left open.
C15_OneRendererClosed ==
    /\ render.launches <= 1
    /\ (render.launches = 1) <=> (render.browser # "none")
    /\ render.launches = 1 => render.kind \in Rendering
    /\ render.pc \in {"newPage", "setContent", "pdf", "close"} => render.browser = "open"
    /\ render.pc \in {"setContent", "pdf"} =>
           /\ Len(render.pdfFiles) = render.i
           /\ render.i < Len(render.items)
    /\ render.pc = "close" => Len(render.pdfFiles) = Len(render.items)
    /\ render.pc = "archive" => render.browser = "closed"
    /\ (render.pc = "done" \/ render.res.ended) => render.browser # "open"

\* A source-name request whose second document failed to render has answered
\* 500 with its one instance closed.
C15_Witness ==
    /\ render.kind = "csv-pdfs"
    /\ render.pc = "done"
    /\ render.res.status = 500
    /\ render.launches = 1
    /\ render.browser = "closed"
    /\ Len(render.pdfFiles) = 1
    /\ Len(render.items) = 2

\* ----------------------------------------------------------------- C16
\* C16: every rendering or archival failure of a render request (while the
\* renderer is launched, while a document is rendered, or while the archive
\* is written to the response) ends the request with a 500 answer that
\* carries the failure's detail.
C16_FailureIs500 ==
    (render.pc = "done" /\ render.err # Null) =>
        /\ render.res.status = 500
        /\ render.res.body.details = render.err[1].message

\* ----------------------------------------------------------------- C17
\* What one step may do to the ledger: no batch row and no recipient row is
\* removed (rows keep their place and identity), a step of the render
\* request (lookup by address, single document, source-name archive, ad hoc
\* archive) leaves both tables exactly as they are, and a step that changes
\* a table is a step of a dispatch request.
LedgerKept ==
    /\ Len(batches') >= Len(batches)
    /\ Len(batch_recipients') >= Len(batch_recipients)
    /\ \A b \in Batches : batches'[b].id = batches[b].id
    /\ \A n \in Rows :
          /\ batch_recipients'[n].id = batch_recipients[n].id
          /\ batch_recipients'[n].batch_id = batch_recipients[n].batch_id
          /\ batch_recipients'[n].idx = batch_recipients[n].idx
    /\ render' # render =>
          /\ batches' = batches
          /\ batch_recipients' = batch_recipients
    /\ (batches' # batches \/ batch_recipients' # batch_recipients) =>
          \E q \in Reqs : req'[q] # req[q]

\* C17: no operation deletes a batch or recipient row; the read and render
\* operations leave every ledger row unchanged and create none; only the
\* dispatch handler writes to the ledger.
C17_RendersDoNotWrite ==
    [][LedgerKept]_vars

\* A single-document request has been answered 200 from a ledger of two
\* batches while a dispatch request is still sending.
C17_Witness ==
    /\ render.kind = "recipient-pdf"
    /\ render.res.status = 200
    /\ Len(batches) = 2
    /\ \E q \in Reqs : req[q].pc = "sendMail"

\* ----------------------------------------------------------------- C18
\* The batches tagged with the source name, compared as the lookup compares
\* them (without regard to case).
Tagged(name) ==
    {b \in Batches : /\ batches[b].csv_name # <<>>
                     /\ ToLowerCase(batches[b].csv_name) = ToLowerCase(name)}

\* C18: a source-name request with a name that no batch is tagged with is
\* answered 404 without a renderer being launched; otherwise it renders the
\* recipients of the batch created last among all batches with that tag
\* (the one with the greatest id, also when several were created in the same
\* second or by concurrent requests), in index order.
C18_LatestBatch ==
    [][(/\ render.pc = "idle"
        /\ render'.kind = "csv-pdfs"
        /\ trim(render'.input[1]) # <<>>)
          => IF Tagged(trim(render'.input[1])) = {}
             THEN /\ render'.pc = "done"
                  /\ render'.res.status = 404
                  /\ render'.launches = 0
             ELSE /\ render'.pc = "launch"
                  /\ render'.batchId \in Tagged(trim(render'.input[1]))
                  /\ \A c \in Tagged(trim(render'.input[1])) : c <= render'.batchId
                  /\ Len(render'.items) = batches[render'.batchId].total
                  /\ \A k \in 1..Len(render'.items) : render'.items[k].idx = k - 1]_vars

\* ----------------------------------------------------------------- C19
\* The recipient rows whose id the path segment seg denotes.
RowsWithId(seg) ==
    {n \in Rows : <<DigitChars[batch_recipients[n].id + 1]>> = seg}

\* The arrival of a single-document request: for a segment that denotes no
\* row the request ends at once with the status unknownStatus has for it, no
\* renderer launched and the ledger unchanged; for an existing id the handler
\* goes on with the stored attribute set of that row and the templates of
\* the batch that owns it.
PdfArrival(unknownStatus) ==
    (render.pc = "idle" /\ render'.kind = "recipient-pdf") =>
        LET seg == render'.input[1]
        IN  IF RowsWithId(seg) = {}
            THEN /\ render'.pc = "done"
                 /\ render'.res.status = unknownStatus[seg]
                 /\ render'.launches = 0
                 /\ batches' = batches
                 /\ batch_recipients' = batch_recipients
            ELSE \E n \in RowsWithId(seg) :
                    /\ render'.pc = "launch"
                    /\ render'.items[1].data_json = batch_recipients[n].data_json
                    /\ render'.batchId = batch_recipients[n].batch_id
                    /\ render'.subject = batches[batch_recipients[n].batch_id].subject
                    /\ render'.htmlBody = batches[batch_recipients[n].batch_id].html_body

\* A template that ends in {Name}, with the name put in its place.
WithName(template, name) ==
    SubSeq(template, 1, Len(template) - Len(S_Name_placeholder)) \o name

\* The document a single-document request has answered with: the subject and
\* body templates of the owning batch, filled in from the stored attribute
\* set of the row (its Name, or "Candidate" when it has none).
PdfFromLedger ==
    (render.kind = "recipient-pdf" /\ render.res.status = 200) =>
        \E n \in RowsWithId(render.input[1]) :
            LET b == batches[batch_recipients[n].batch_id]
                name == OrElse(getField(batch_recipients[n].data_json, S_Name, <<>>),
                               S_Candidate)
            IN  /\ render.launches = 1
                /\ render.res.body.pdf.title = WithName(b.subject, name)
                /\ render.res.body.pdf.body = WithName(b.html_body, name)

Always404 == [seg \in IdSegments |-> 404]

\* 400 for a segment that is zero or not a number, else 404.
InvalidOr404 ==
    [seg \in IdSegments |->
        IF seg = <<"0">> \/ \E k \in 1..Len(seg) : \A d \in 1..10 : DigitChars[d] # seg[k]
        THEN 400 ELSE 404]

\* C19 as stated: a single-document request for an id that matches no
\* recipient row is answered 404, launches no renderer and leaves the ledger
\* unchanged; for an existing id it renders from the stored attribute set and
\* the owning batch's subject and body templates.
C19_UnknownIs404 ==
    /\ [][PdfArrival(Always404)]_vars
    /\ []PdfFromLedger

\* C19, amended: a single-document request for an id that matches no
\* recipient row is answered 404, or 400 when the id is zero or not a number;
\* either way it launches no renderer and leaves the ledger unchanged; for an
\* existing id it renders from the stored attribute set and the owning
\* batch's subject and body templates.
C19_UnknownIs404Or400 ==
    /\ [][PdfArrival(InvalidOr404)]_vars
    /\ []PdfFromLedger

\* The ledger holds rows, and a request for the id 0 has been answered 400
\* without a renderer.
C19_Witness ==
    /\ render.kind = "recipient-pdf"
    /\ render.input[1] = <<"0">>
    /\ render.res.status = 400
    /\ render.launches = 0
    /\ Len(batch_recipients) > 0

\* ----------------------------------------------------------------- C20
\* An archive request has succeeded: the archive was finalized and the
\* response ended with status 200.
ArchiveSucceeded ==
    /\ render.kind \in Archiving
    /\ render.pc = "done"
    /\ render.res.status = 200
    /\ render.err = Null

\* The attribute set of the n-th input document of the archive request: the
\* n-th recipient of the body, or the stored attributes of the n-th row.
InputAttributes(n) ==
    IF render.kind = "email-pdfs" THEN render.items[n] ELSE render.items[n].data_json

\* C20: for every archive request that succeeds, the ZIP holds as many
\* entries as there are input documents, the n-th entry is the document of
\* the n-th recipient (also when two recipients share an address), and every
\* entry filename is made of characters in [A-Za-z0-9@._-] only.
C20_EntryPerRecipient ==
    ArchiveSucceeded =>
        LET zip == render.res.body.zip
        IN  /\ Len(zip) = Len(render.items)
            /\ \A n \in 1..Len(zip) :
                  /\ zip[n].buffer.body
                       = WithName(render.htmlBody,
                                  OrElse(getField(InputAttributes(n), S_Name, <<>>),
                                         S_Candidate))
                  /\ \A k \in 1..Len(zip[n].name) : zip[n].name[k] \in SafeChars

\* An archive of two documents for the same address has been delivered: two
\* entries under one filename.
C20_Witness ==
    /\ ArchiveSucceeded
    /\ render.kind = "email-pdfs"
    /\ Len(render.items) = 2
    /\ render.items[1] = render.items[2]
    /\ Len(render.res.body.zip) = 2
    /\ render.res.body.zip[1].name = render.res.body.zip[2].name

\* ----------------------------------------------------------------- C21
\* addr with every character outside [A-Za-z0-9@._-] replaced by "_".
Underscored(addr) ==
    [k \in 1..Len(addr) |-> IF addr[k] \in SafeChars THEN addr[k] ELSE "_"]

\* The archive.append calls of an archive request have been made.
Appended ==
    /\ render.kind \in Archiving
    /\ render.entries # <<>>

\* C21 as stated: the archive entry name of a recipient is its address with
\* every character outside [A-Za-z0-9@._-] replaced by "_" (plus ".pdf"),
\* and "recipient" whenever the recipient has no address, be the address
\* absent or empty, in both archive requests.
C21_RecipientWhenNoAddress ==
    Appended =>
        \A n \in 1..Len(render.entries) :
            LET addr == getField(InputAttributes(n), S_Email, <<>>)
            IN  render.entries[n].name
                  = (IF addr = <<>> THEN S_recipient ELSE Underscored(addr)) \o S_pdf

\* C21, amended: the archive entry name of a recipient is its address with
\* every character outside [A-Za-z0-9@._-] replaced by "_" (plus ".pdf");
\* it is "recipient" when the address is the empty string and "unknown" when
\* the recipient has no Email attribute or a null one, in both archive
\* requests.
C21_RecipientWhenEmptyAddress ==
    Appended =>
        \A n \in 1..Len(render.entries) :
            LET addr == getField(InputAttributes(n), S_Email, S_unknown)
            IN  render.entries[n].name
                  = (IF addr = <<>> THEN S_recipient ELSE Underscored(addr)) \o S_pdf

\* The source-name archive of a batch whose first recipient has no Email
\* attribute and whose second has an empty one has been delivered.
C21_Witness ==
    /\ ArchiveSucceeded
    /\ render.kind = "csv-pdfs"
    /\ Len(render.res.body.zip) = 2
    /\ getField(InputAttributes(1), S_Email, S_x) = S_x
    /\ getField(InputAttributes(2), S_Email, S_x) = <<>>
    /\ render.res.body.zip[1].name = S_unknown \o S_pdf
    /\ render.res.body.zip[2].name = S_recipient \o S_pdf

\* ----------------------------------------------------------------- C22
\* text contains marker, in any letter case of the text.
Mentions(text, marker) == includes(ToLowerCase(text), marker)

\* The TEMP_AUTH rule: response code 454, or "454 4.7.0" or "temporary
\* authentication failure" in the message or the response text.
TempAuthRule(err) ==
    \/ err.responseCode = Some(454)
    \/ \E marker \in {S_454_470, S_temporary_authentication_failure} :
           Mentions(err.message, marker) \/ Mentions(err.response, marker)

\* The NETWORK rule: one of the connection, reset, timeout, socket and DNS
\* codes, or a phrase of connection loss, reset, hang-up or timeout in the
\* message and response text.
NetworkRule(err) ==
    \/ ToUpperCase(err.code) \in {S_ECONNECTION, S_ECONNRESET, S_ETIMEDOUT, S_ESOCKET,
                                  S_EAI_AGAIN, S_ENOTFOUND}
    \/ \E phrase \in {S_network_error, S_connection_lost, S_connection_closed,
                       S_connection_reset, S_socket_hang_up, S_timed_out, S_timeout} :
           Mentions(err.message \o S_blank \o err.response, phrase)

\* The classes the classifier has returned for its argument are right.
Classified ==
    (call.fn = "classify" /\ call.returned # {}) =>
        LET err == call.args.err
        IN  /\ Cardinality(call.returned) = 1
            /\ call.returned \subseteq {"TEMP_AUTH", "NETWORK", "OTHER"}
            /\ (TempAuthRule(err) /\ NetworkRule(err)) => call.returned = {"TEMP_AUTH"}
            /\ (err.code = S_ECONNRESET /\ ~TempAuthRule(err))
                  => call.returned = {"NETWORK"}
            /\ (Mentions(err.message, S_454_470) \/ Mentions(err.response, S_454_470))
                  => call.returned = {"TEMP_AUTH"}
            /\ (~TempAuthRule(err) /\ ~NetworkRule(err)) => call.returned = {"OTHER"}

\* C22: the failure classifier is total, deterministic and free of side
\* effects: every error gets exactly one of TEMP_AUTH, NETWORK, OTHER, the
\* same at every call, and nothing else changes; TEMP_AUTH wins when both
\* rules match; code ECONNRESET without a 454 marker gives NETWORK; a message
\* or response text with "454 4.7.0" in any letter case gives TEMP_AUTH; an
\* error that matches neither rule gives OTHER.
C22_ClassifierTotal ==
    /\ []Classified
    /\ [][call' # call => UNCHANGED handlerVars]_vars

\* An error with code ECONNRESET whose upper-case message holds "454 4.7.0",
\* so that both rules match, has been classified TEMP_AUTH.
C22_Witness ==
    /\ call.fn = "classify"
    /\ call.args.err.code = S_ECONNRESET
    /\ call.args.err.responseCode = Null
    /\ call.args.err.message = ToUpperCase(S_454_Try_again_later)
    /\ call.args.err.response = <<>>
    /\ call.returned = {"TEMP_AUTH"}

\* ----------------------------------------------------------------- C23
\* The attribute names of an attribute map, and the placeholder of a name.
Keys(recipient) == {recipient[n].k : n \in 1..Len(recipient)}
Placeholder(name) == <<"{">> \o name \o <<"}">>

\* The names the placeholders of Templates carry.
PlaceholderNames == {S_Name, ToLowerCase(S_Name), S_City}

\* C23: template rendering returns a non-empty template as it is whenever
\* no attribute name has its placeholder in the template (the empty
\* attribute set included), and a placeholder {x} whose name x is not, in
\* exact letter case, an attribute name is still there in the output.
C23_IdentityWithoutMatch ==
    (call.fn = "applyTemplate" /\ call.returned # {}) =>
        LET template == call.args.template
            recipient == call.args.recipient
        IN  \A out \in call.returned :
                /\ (/\ template # <<>>
                    /\ \A k \in Keys(recipient) : ~includes(template, Placeholder(k)))
                      => out = template
                /\ \A x \in PlaceholderNames \ Keys(recipient) :
                      includes(template, Placeholder(x)) => includes(out, Placeholder(x))

\* "Hi {Name}" has been rendered with the attribute name alone, in lower
\* case: it came back as it was.
C23_Witness ==
    /\ call.fn = "applyTemplate"
    /\ call.args.template = S_Hi_Name
    /\ call.args.recipient = <<[k |-> ToLowerCase(S_Name), v |-> Some(S_Bob)]>>
    /\ call.returned = {S_Hi_Name}

\* ----------------------------------------------------------------- C24
\* The name a recipient is addressed by: the value of its name column, the
\* first attribute called "name" in any letter case ("" for a null), and
\* "Candidate" when it has no such attribute.
AddressedAs(recipient) ==
    LET columns == {n \in 1..Len(recipient) :
                       ToLowerCase(recipient[n].k) = ToLowerCase(S_Name)}
    IN  IF columns = {} THEN S_Candidate
        ELSE LET value == recipient[Min(columns)].v
             IN  IF value = Null THEN <<>> ELSE value[1]

\* C24: in dispatch and in rendering {Name} is replaced by "Candidate" only
\* when the recipient's attribute set has no name column at all, under a
\* lookup that ignores letter case; a name column's own value is used, so
\* "Hi {Name}" gives "Hi Ada" for the name Ada and "Hi " for an empty name.
C24_CandidateOnlyWithoutName ==
    call.fn \in Personalizing =>
        \A out \in call.returned :
            out = WithName(call.args.subject, AddressedAs(call.args.recipient))

\* ----------------------------------------------------------------- C25
\* C25: in the archive requests each rendered PDF is written to the
\* response as a ZIP entry as it is produced: every rendered document but
\* the latest is an entry of the archive already, and the documents of a
\* request of several are never all held before the first byte of the
\* archive has gone out.
C25_StreamedAsProduced ==
    render.kind \in Archiving =>
        /\ Len(render.entries) >= Len(render.pdfFiles) - 1
        /\ (Len(render.items) > 1 /\ Len(render.pdfFiles) = Len(render.items))
              => render.headersSent

\* ----------------------------------------------------------------- C26
\* The class of err is TEMP_AUTH or NETWORK.
Transient(err) == TempAuthRule(err) \/ NetworkRule(err)

\* One step of request q seen from the two retry loops. A failed attempt n
\* is followed by one delay when the error is transient and n < 3, and ends
\* the operation at once otherwise; a delay is followed by attempt n + 1.
RetryShape(q) ==
    LET h == req[q]
        g == req'[q]
    IN  /\ (h.pc = "verify" /\ g.pc = "verifySleep")
              => Transient(g.err[1]) /\ h.attempt < 3
        /\ (h.pc = "verify" /\ g.pc = "done")
              => /\ ~(Transient(g.err[1]) /\ h.attempt < 3)
                 /\ g.res.status = 500
        /\ (h.pc = "verifySleep" /\ g.pc # "verifySleep")
              => g.pc = "verify" /\ g.attempt = h.attempt + 1
        /\ (h.pc = "sendMail" /\ g.pc = "sendSleep")
              => /\ Transient(g.err[1]) /\ h.attempt < 3
                 /\ sleepCalls'[q][h.i] = sleepCalls[q][h.i] + 1
                 /\ sendMailCalls'[q] = sendMailCalls[q]
        /\ (h.pc = "sendMail" /\ g.pc \notin {"sendMail", "sendSleep"})
              => /\ g.pc = "resume"
                 /\ g.r[1].attempt = h.attempt
                 /\ g.r[1].status = "error"
                      => g.r[1].reason = "OTHER" \/ h.attempt = 3
                 /\ sleepCalls'[q] = sleepCalls[q]
                 /\ sendMailCalls'[q] = sendMailCalls[q]
        /\ (h.pc = "sendSleep" /\ g.pc # "sendSleep")
              => /\ g.pc = "sendMail" /\ g.i = h.i /\ g.attempt = h.attempt + 1
                 /\ sendMailCalls'[q][h.i] = sendMailCalls[q][h.i] + 1
                 /\ sleepCalls'[q] = sleepCalls[q]

\* The attempt in flight is one of 1..3, and no index has seen more than 3
\* sends or more than 2 delays.
AttemptsBounded ==
    \A q \in Reqs :
        /\ req[q].pc \in {"verify", "verifySleep", "sendMail", "sendSleep"}
              => req[q].attempt \in 1..3
        /\ req[q].pc \in {"sendMail", "sendSleep"}
              => sendMailCalls[q][req[q].i] = req[q].attempt
        /\ \A n \in DOMAIN sendMailCalls[q] :
              sendMailCalls[q][n] <= 3 /\ sleepCalls[q][n] <= 2

\* C26: verifySmtpWithRetry and sendToRecipientWithRetry make at most 3
\* transport attempts per invocation; after a failed attempt n they wait one
\* retry delay and make attempt n + 1 if and only if the error's class is
\* TEMP_AUTH or NETWORK and n < 3; an OTHER error on any attempt, or any
\* error on attempt 3, ends the operation at once, with no further attempt
\* and no delay.
C26_RetryShape ==
    /\ []AttemptsBounded
    /\ [][\A q \in Reqs : RetryShape(q)]_vars

\* A send has failed for good on its third attempt, after two delays, with a
\* NETWORK error, while the other request's send failed on its first attempt
\* with an OTHER error and no delay.
C26_Witness ==
    \E q, p \in Reqs :
        /\ req[q].pc = "resume"
        /\ req[q].r # Null
        /\ req[q].r[1].status = "error"
        /\ req[q].r[1].reason = "NETWORK"
        /\ req[q].r[1].attempt = 3
        /\ sendMailCalls[q][req[q].i] = 3
        /\ sleepCalls[q][req[q].i] = 2
        /\ req[p].pc = "resume"
        /\ req[p].r # Null
        /\ req[p].r[1].status = "error"
        /\ req[p].r[1].reason = "OTHER"
        /\ req[p].r[1].attempt = 1
        /\ sleepCalls[p][req[p].i] = 0

\* ----------------------------------------------------------------- C27
\* The sends counted for index k (none before the request is accepted).
Sends(counts, k) == IF k \in DOMAIN counts THEN counts[k] ELSE 0

\* A step in which request q makes a send for index j: no send of q was in
\* flight (the verify call or the previous send has just returned, or a
\* delay has ended), verification has not failed, the rows below j are
\* terminal in the ledger and the rows from j on pending, and no higher
\* index has seen a send.
SendInOrder(q) ==
    \A j \in DOMAIN sendMailCalls'[q] :
        Sends(sendMailCalls'[q], j) > Sends(sendMailCalls[q], j) =>
            /\ req[q].pc \in {"verify", "resume", "sendSleep"}
            /\ req'[q].pc = "sendMail"
            /\ req'[q].i = j
            /\ sendMailCalls'[q] = [sendMailCalls[q] EXCEPT ![j] = @ + 1]
            /\ batches'[req'[q].batchId].status = "in_progress"
            /\ batches'[req'[q].batchId].error = Null
            /\ \A n \in 1..Len(batch_recipients') :
                  batch_recipients'[n].batch_id = req'[q].batchId =>
                      IF batch_recipients'[n].idx < j
                      THEN Terminal(batch_recipients'[n])
                      ELSE batch_recipients'[n].status = "pending"
            /\ \A k \in DOMAIN sendMailCalls'[q] : k > j => sendMailCalls'[q][k] = 0

\* While request q verifies connectivity, and after verification failed, no
\* send has been made for its batch.
NoSendUnverified ==
    \A q \in Reqs :
        (Verifying(q) \/ (Accepted(q) /\ batches[req[q].batchId].error # Null))
            => \A k \in DOMAIN sendMailCalls[q] : sendMailCalls[q][k] = 0

\* C27: within one batch the sends happen in ascending index order and one
\* at a time: a send attempt for index j is made only after connectivity
\* verification succeeded and after every index below j has a persisted
\* terminal status, and at most one send of the batch is in flight.
C27_SendsInOrder ==
    /\ []NoSendUnverified
    /\ [][\A q \in Reqs : SendInOrder(q)]_vars

\* The second attempt for index 1 is in flight: index 0 was sent to and its
\* row is terminal, the row of index 1 is pending.
C27_Witness ==
    \E q \in Reqs :
        /\ req[q].pc = "sendMail"
        /\ req[q].i = 1
        /\ req[q].attempt = 2
        /\ sendMailCalls[q][0] >= 1
        /\ sendMailCalls[q][1] = 2
        /\ Terminal(RowAt(req[q].batchId, 0))
        /\ RowAt(req[q].batchId, 1).status = "pending"

\* ----------------------------------------------------------------- C28
\* Request q has been answered 200 or 500.
Answered(q) == req[q].pc = "done" /\ req[q].res.status \in {200, 500}

\* The ledger as the answer of request q finds it: the batch row is
\* terminal, the rows of the reached recipients are terminal, and a 200
\* answer repeats the counts and the stop index of the batch row and lists
\* one result per processed recipient, in index order.
AnswerAfterWrites(q) ==
    LET b == batches[req[q].batchId]
        body == req[q].res.body
    IN  /\ Finalized(req[q].batchId)
        /\ \A n \in RowsOf(req[q].batchId) :
              batch_recipients[n].idx < b.processed => Terminal(batch_recipients[n])
        /\ req[q].res.status = 500 => b.status = "stopped" /\ b.processed = 0
        /\ req[q].res.status = 200 =>
              /\ body.sent = b.sent
              /\ body.failed = b.failed
              /\ body.processed = b.processed
              /\ body.stoppedAt = b.stopped_at
              /\ Len(body.results) = body.processed
              /\ \A k \in 1..Len(body.results) :
                    LET row == RowAt(req[q].batchId, k - 1)
                    IN  /\ body.results[k].email = row.email
                        /\ body.results[k].status = row.status
                        /\ body.results[k].attempt = row.attempt
                        /\ body.results[k].error = row.error

\* C28: the response of a dispatch request is produced only after all
\* ledger writes of the request: when the response (200 or 500) is sent the
\* batch row is terminal and the row of every reached recipient holds its
\* terminal status, the sent, failed, processed and stoppedAt of the
\* response are those of the finalized batch row, and the result list has
\* exactly processed entries, in index order.
C28_AnswerAfterWrites ==
    \A q \in Reqs : Answered(q) => AnswerAfterWrites(q)

\* A request of two recipients has been answered 200 after it sent to index
\* 0 and stopped at index 1.
C28_Witness ==
    \E q \in Reqs :
        /\ Answered(q)
        /\ req[q].res.status = 200
        /\ req[q].res.body.processed = 2
        /\ req[q].res.body.stoppedAt = Some(1)
        /\ req[q].res.body.results[1].status = "sent"
        /\ req[q].res.body.results[2].status = "error"
        /\ batches[req[q].batchId].stopped_at = Some(1)

\* ----------------------------------------------------------------- C29
\* C29: the fatal error of a batch row is non-null only if connectivity
\* verification failed: a batch with a fatal error is stopped with
\* processed = 0 and a null stop index, all its recipients are pending and
\* its request was answered 500; every batch finalized after at least one
\* recipient was processed has a null fatal error.
C29_FatalOnlyFromVerify ==
    \A b \in Batches :
        /\ batches[b].error # Null =>
              /\ batches[b].status = "stopped"
              /\ batches[b].processed = 0
              /\ batches[b].sent = 0 /\ batches[b].failed = 0
              /\ batches[b].stopped_at = Null
              /\ \A n \in RowsOf(b) : batch_recipients[n].status = "pending"
              /\ \E q \in Reqs : /\ req[q].batchId = b
                                  /\ req[q].res.status = 500
                                  /\ req[q].err # Null
        /\ (Finalized(b) /\ batches[b].processed >= 1) => batches[b].error = Null

\* One batch carries a fatal error and its recipient is pending, another
\* was finalized after its recipient was processed and carries none.
C29_Witness ==
    \E b, c \in Batches :
        /\ batches[b].error # Null
        /\ \A n \in RowsOf(b) : batch_recipients[n].status = "pending"
        /\ Finalized(c)
        /\ batches[c].processed = 1
        /\ batches[c].error = Null

\* ----------------------------------------------------------------- C30
\* The attribute map has no email value: no attribute called "email" in any
\* letter case, or the first such attribute holds null or "".
NoEmailValue(attrs) ==
    LET columns == {n \in 1..Len(attrs) :
                       ToLowerCase(attrs[n].k) = ToLowerCase(S_Email)}
    IN  \/ columns = {}
        \/ attrs[Min(columns)].v \in {Null, Some(<<>>)}

\* No send is ever made for a recipient without email value; once reached,
\* its row is an error with attempt 0 and its result an error of class OTHER.
NoEmailNoSend ==
    \A q \in Reqs :
        \A k \in DOMAIN sendMailCalls[q] :
            LET row == RowAt(req[q].batchId, k)
            IN  NoEmailValue(row.data_json) =>
                    /\ sendMailCalls[q][k] = 0
                    /\ sleepCalls[q][k] = 0
                    /\ Terminal(row) =>
                          /\ row.status = "error"
                          /\ row.attempt = 0
                          /\ row.error = Some(S_Missing_Email)
                    /\ Len(req[q].results) > k =>
                          /\ req[q].results[k + 1].status = "error"
                          /\ req[q].results[k + 1].reason = "OTHER"

\* The step in which request q records the result of a recipient without
\* email value: the batch goes on with the next recipient, or is completed
\* or stopped as before when there is none; the recipient is no stop index.
GoesOnAfterNoEmail(q) ==
    LET k == Len(req[q].results)
    IN  (/\ Len(req'[q].results) = k + 1
         /\ NoEmailValue(RowAt(req[q].batchId, k).data_json))
            => /\ req'[q].stoppedAt = Null
               /\ IF k + 1 < Len(req[q].recipients)
                  THEN /\ req'[q].i = k + 1
                       /\ req'[q].pc \in {"sendMail", "resume"}
                       /\ batches'[req[q].batchId].status = "in_progress"
                  ELSE /\ req'[q].pc = "done"
                       /\ batches'[req[q].batchId].status = "completed"
                       /\ batches'[req[q].batchId].processed = k + 1

\* C30: a recipient whose attribute map has no email value (no Email key
\* under a lookup that ignores letter case, or an empty or null value) is
\* recorded as an error of class OTHER without any transport send made for
\* it, and the batch continues with the next recipient.
C30_NoEmailIsOther ==
    /\ []NoEmailNoSend
    /\ [][\A q \in Reqs : GoesOnAfterNoEmail(q)]_vars

\* The recipient of index 0 has no Email attribute: its row is an error
\* with attempt 0, no send was made for it, and the send for index 1 is in
\* flight.
C30_Witness ==
    \E q \in Reqs :
        /\ req[q].pc = "sendMail"
        /\ req[q].i = 1
        /\ NoEmailValue(RowAt(req[q].batchId, 0).data_json)
        /\ RowAt(req[q].batchId, 0).status = "error"
        /\ RowAt(req[q].batchId, 0).attempt = 0
        /\ sendMailCalls[q][0] = 0
        /\ sendMailCalls[q][1] = 1

\* ----------------------------------------------------------------- C31
\* The number of recipient rows of batch b with one of the given statuses.
RowCount(b, statuses) ==
    Cardinality({n \in RowsOf(b) : batch_recipients[n].status \in statuses})

\* C31: in every batch with a terminal status the aggregate counts agree
\* with the recipient rows: sent is the number of the batch's rows with
\* status sent, failed the number with status error, processed the number
\* of rows that are not pending, and total the number of rows.
C31_CountsAgreeWithRows ==
    \A b \in Batches :
        Finalized(b) =>
            /\ batches[b].sent = RowCount(b, {"sent"})
            /\ batches[b].failed = RowCount(b, {"error"})
            /\ batches[b].processed = RowCount(b, {"sent", "error"})
            /\ batches[b].total = Cardinality(RowsOf(b))

\* A batch of two recipients is terminal with one row sent and one row in
\* error.
C31_Witness ==
    \E b \in Batches :
        /\ Finalized(b)
        /\ batches[b].total = 2
        /\ batches[b].sent = 1
        /\ batches[b].failed = 1
        /\ RowCount(b, {"sent"}) = 1
        /\ RowCount(b, {"error"}) = 1

\* ----------------------------------------------------------------- C32
\* The attempt a terminal row holds is the number of transporter.sendMail
\* calls its request made for it; a sent row holds no error and saw one
\* delay per failed attempt.
AttemptIsSendCount ==
    \A q \in Reqs :
        \A k \in DOMAIN sendMailCalls[q] :
            LET row == RowAt(req[q].batchId, k)
            IN  Terminal(row) =>
                    /\ row.attempt = sendMailCalls[q][k]
                    /\ row.status = "sent" =>
                          /\ row.attempt \in 1..3
                          /\ row.error = Null
                          /\ sleepCalls[q][k] = row.attempt - 1

\* The step in which request q writes the row of index k as sent: no stop
\* index is set, and the batch goes on with index k + 1 or is completed.
SentGoesOn(q) ==
    \A k \in DOMAIN sendMailCalls[q] :
        (/\ RowAt(req[q].batchId, k).status = "pending"
         /\ \E n \in 1..Len(batch_recipients') :
               /\ batch_recipients'[n].batch_id = req[q].batchId
               /\ batch_recipients'[n].idx = k
               /\ batch_recipients'[n].status = "sent")
            => /\ req'[q].stoppedAt = Null
               /\ IF k + 1 < Len(req[q].recipients)
                  THEN /\ req'[q].i = k + 1
                       /\ batches'[req[q].batchId].status = "in_progress"
                  ELSE /\ req'[q].pc = "done"
                       /\ batches'[req[q].batchId].status = "completed"

\* C32: the attempt count persisted for a recipient is the number of
\* transport send calls made for it in the batch run; a recipient that
\* fails transiently on attempts 1..k-1 and succeeds on attempt k <= 3 is
\* recorded as sent with attempt k and a null error, and does not trip the
\* circuit breaker.
C32_AttemptIsSendCount ==
    /\ []AttemptIsSendCount
    /\ [][\A q \in Reqs : SentGoesOn(q)]_vars

\* The recipient of index 0 failed twice and was sent to on attempt 3: its
\* row is sent with attempt 3 and no error, and the send for index 1 is in
\* flight.
C32_Witness ==
    \E q \in Reqs :
        /\ req[q].pc = "sendMail"
        /\ req[q].i = 1
        /\ RowAt(req[q].batchId, 0).status = "sent"
        /\ RowAt(req[q].batchId, 0).attempt = 3
        /\ RowAt(req[q].batchId, 0).error = Null
        /\ sendMailCalls[q][0] = 3
        /\ sleepCalls[q][0] = 2

\* ----------------------------------------------------------------- C33
\* The circuit breaker has fired for request q: one of its results is an
\* error of class NETWORK or TEMP_AUTH.
Fired(q) ==
    \E k \in 1..Len(req[q].results) :
        /\ req[q].results[k].status = "error"
        /\ req[q].results[k].reason \in {"NETWORK", "TEMP_AUTH"}

\* A send of request q for index j has succeeded: its result is at hand or
\* listed, or its row is written.
Delivered(q, j) ==
    \/ req[q].pc = "resume" /\ req[q].i = j /\ req[q].r # Null
          /\ req[q].r[1].status = "sent"
    \/ Len(req[q].results) > j /\ req[q].results[j + 1].status = "sent"
    \/ RowAt(req[q].batchId, j).status = "sent"

\* A step in which request q makes a send for index j: no send for j has
\* succeeded, the circuit breaker has not fired and the batch is not
\* finalized.
NoSendAfter(q) ==
    \A j \in DOMAIN sendMailCalls'[q] :
        Sends(sendMailCalls'[q], j) > Sends(sendMailCalls[q], j) =>
            /\ ~Delivered(q, j)
            /\ ~Fired(q)
            /\ req[q].stoppedAt = Null
            /\ ~Finalized(req[q].batchId)
            /\ batches'[req[q].batchId].status = "in_progress"

\* After the circuit breaker fired or the batch was finalized the request
\* is over: no send is in flight and none is to come.
OverWhenStopped ==
    \A q \in Reqs :
        (Accepted(q) /\ (Fired(q) \/ req[q].stoppedAt # Null
                                  \/ Finalized(req[q].batchId)))
            => req[q].pc = "done"

\* C33: within one batch run each recipient is delivered at most once: no
\* send call is made for a recipient after one of its sends succeeded, and
\* no send call is made for any recipient after the circuit breaker fired or
\* after the batch was finalized.
C33_NoSendAfterSuccessOrStop ==
    /\ []OverWhenStopped
    /\ [][\A q \in Reqs : NoSendAfter(q)]_vars

\* Index 0 was sent to with a single call; the circuit breaker fired at
\* index 1 after three calls and the batch is finalized.
C33_Witness ==
    \E q \in Reqs :
        /\ req[q].pc = "done"
        /\ Fired(q)
        /\ req[q].stoppedAt = Some(1)
        /\ Finalized(req[q].batchId)
        /\ Delivered(q, 0)
        /\ sendMailCalls[q][0] = 1
        /\ sendMailCalls[q][1] = 3

\* ----------------------------------------------------------------- C34
\* The class of an error, by the two rules.
ClassOf(err) ==
    IF TempAuthRule(err) THEN "TEMP_AUTH"
    ELSE IF NetworkRule(err) THEN "NETWORK" ELSE "OTHER"

\* Every error result of a send carries the message and the class of one
\* error of the transport, its row holds the same message, and the request
\* has this index as stop index exactly when that class is not OTHER.
LastErrorDecides ==
    \A q \in Reqs :
        \A k \in 1..Len(req[q].results) :
            LET r == req[q].results[k]
            IN  (r.status = "error" /\ r.attempt >= 1) =>
                    \E e \in Errors :
                        /\ r.error = Some(e.message)
                        /\ r.reason = ClassOf(e)
                        /\ RowAt(req[q].batchId, k - 1).error = Some(e.message)
                        /\ RowAt(req[q].batchId, k - 1).status = "error"
                        /\ (req[q].stoppedAt = Some(k - 1)) <=> (ClassOf(e) # "OTHER")

\* The step in which a send of request q fails for good: the error of this
\* attempt is OTHER or the attempt is the third (every earlier attempt
\* failed with a transient error and was followed by a delay), and the
\* result carries this attempt's number.
FailsOnLastAttempt(q) ==
    (/\ req[q].pc = "sendMail"
     /\ req'[q].pc = "resume"
     /\ req'[q].r # Null
     /\ req'[q].r[1].status = "error")
        => /\ req'[q].r[1].attempt = req[q].attempt
           /\ sleepCalls[q][req[q].i] = req[q].attempt - 1
           /\ \E e \in Errors :
                 /\ req'[q].r[1].error = Some(e.message)
                 /\ req'[q].r[1].reason = ClassOf(e)
                 /\ ClassOf(e) = "OTHER" \/ req[q].attempt = 3

\* C34: the failure class that drives the circuit breaker for a recipient
\* is the class of the error of its last send attempt only: a recipient
\* whose earlier attempts failed with NETWORK or TEMP_AUTH and whose last
\* attempt failed with an OTHER error is recorded as error/OTHER and does
\* not stop the batch, and the persisted error message is the message of
\* that last attempt.
C34_LastAttemptDecides ==
    /\ []LastErrorDecides
    /\ [][\A q \in Reqs : FailsOnLastAttempt(q)]_vars

\* The first attempt for index 0 failed with a transient error and was
\* followed by a delay, the second failed with the 550 error: the result
\* is an error of class OTHER with the 550 message, and the send for index
\* 1 is in flight.
C34_Witness ==
    \E q \in Reqs :
        /\ req[q].pc = "sendMail"
        /\ req[q].i = 1
        /\ req[q].stoppedAt = Null
        /\ sleepCalls[q][0] = 1
        /\ sendMailCalls[q][0] = 2
        /\ req[q].results[1].status = "error"
        /\ req[q].results[1].reason = "OTHER"
        /\ req[q].results[1].attempt = 2
        /\ req[q].results[1].error = Some(S_550_No_such_user)
        /\ RowAt(req[q].batchId, 0).error = Some(S_550_No_such_user)

====
